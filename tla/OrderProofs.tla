----------------------------- MODULE OrderProofs -----------------------------
(***************************************************************************)
(* Theorems about OrderExecution and Payment, for any finite set of orders, *)
(* any requests and consumers that overlap, any costs, deposits and faults. *)
(***************************************************************************)
EXTENDS Payment, FiniteSetTheorems, WellFoundedInduction, TLAPS

Task == [pc : Pcs, order : Orders \union {NoOrder}]

Txn == [op : {"idle", "reserve", "capture", "release"},
        order : Orders \union {NoOrder}, read : Wallets]

(* The part of TypeOK that the bookkeeping of orders needs.                  *)
BookType ==
  /\ status \in [Orders -> Statuses] /\ ref \in [Orders -> BOOLEAN]
  /\ task \in [Requests -> Task]
  /\ money \in Wallets /\ txn \in [Requests -> Txn]
  /\ captured \in [Orders -> Nat] /\ released \in [Orders -> Nat]
  /\ raced \subseteq Orders /\ lost \in BOOLEAN

(* Where a request may be while its transaction of kind op is open.          *)
Awaits(op) == CASE op = "reserve" -> {"idle", "reserve_answer"}
                [] op = "capture" -> {"idle", "capture_answer", "publish_placed"}
                [] op = "release" -> {"idle", "release_answer", "publish_failed"}

(* What holds of a request, wherever the others are: it works on an order    *)
(* until it returns, and opens no transaction before the last one has ended. *)
(* What a settlement writes is no debt, however the hold changes meanwhile.  *)
OwnOK(tk, tx) ==
  /\ tk.pc = "idle" <=> tk.order = NoOrder
  /\ tx.op = "idle" => tx = NoTxn
  /\ tx # NoTxn => /\ tx.order \in Orders
                   /\ tk.pc \in Awaits(tx.op)
                   /\ tk.order \in {tx.order, NoOrder}
                   /\ tx.op # "reserve" => Cost[tx.order] <= tx.read.reservedAmount

Owns == \A r \in Requests : OwnOK(task[r], txn[r])

(* No request is past the creation of a row that does not exist, and no row  *)
(* that does not exist has a reference.                                      *)
Creating == {"idle", "reserve", "reserve_answer", "create"}

RowExists ==
  /\ \A r \in Requests : task[r].pc \notin Creating => status[task[r].order] # "NONE"
  /\ \A o \in Orders : ref[o] => status[o] # "NONE"

(* The two ways in which a step leaves r's place in the code.                *)
LEMMA Moves ==
  ASSUME BookType, NEW r \in Requests, NEW o \in Orders
  PROVE  /\ \A pc \in Pcs : Go(r, o, pc) =>
              /\ task'[r].pc = pc /\ task'[r].order = o
              /\ task' \in [Requests -> Task]
         /\ Return(r) => /\ task'[r].pc = "idle" /\ task'[r].order = NoOrder
                         /\ task' \in [Requests -> Task]
         /\ (\E pc \in Pcs : Go(r, o, pc)) \/ Return(r) =>
              \A q \in Requests : q # r => task'[q] = task[q]
<1>1. ASSUME NEW pc \in Pcs, Go(r, o, pc)
      PROVE  /\ task'[r].pc = pc /\ task'[r].order = o
             /\ task' \in [Requests -> Task]
  BY <1>1 DEF BookType, Go, Task
<1>2. ASSUME Return(r)
      PROVE  /\ task'[r].pc = "idle" /\ task'[r].order = NoOrder
             /\ task' \in [Requests -> Task]
  BY <1>2 DEF BookType, Return, Task, Pcs
<1>3. QED BY <1>1, <1>2 DEF BookType, Go, Return

(* No transaction, as a value.                                               *)
LEMMA TxnUnopened == NoTxn.op = "idle" /\ NoTxn.order = NoOrder /\ NoTxn \in Txn
BY DEF NoTxn, Txn, Balance, Wallets

(* A wallet whose hold may be a debt.                                        *)
Accounts == [present : {TRUE}, currentBalance : Int, reservedAmount : Int]

(* What a transaction of escrow writes, in these types.                      *)
LEMMA EscrowWrites ==
  ASSUME NEW now \in Wallets, NEW read \in Wallets, NEW a \in Nat,
         NEW op \in {"reserve", "capture", "release"},
         NEW m, m = Escrow!Update(op, read, now, a)
  PROVE  /\ m \in Accounts
         /\ m.reservedAmount = IF op = "reserve" THEN read.reservedAmount + a
                                                ELSE read.reservedAmount - a
<1>1. /\ now \in Accounts /\ read.reservedAmount + a \in Int
      /\ read.reservedAmount - a \in Int /\ read.currentBalance - a \in Int
  <2>1. now \in Accounts
    <3>1. Nat \subseteq Int OBVIOUS
    <3>2. \A z \in Wallets : z \in Accounts
      BY <3>1, Zenon DEF Wallets, Accounts
    <3>3. QED BY <3>2
  <2>2. read.reservedAmount \in Nat /\ read.currentBalance \in Int BY DEF Wallets
  <2>3. QED BY <2>1, <2>2
<1>2. CASE op = "reserve"
  <2>1. m = [now EXCEPT !.reservedAmount = read.reservedAmount + a]
    BY <1>2 DEF Escrow!Update, Escrow!Reserved
  <2>2. QED BY <1>1, <1>2, <2>1 DEF Accounts
<1>3. CASE op = "capture"
  <2>1. m = [now EXCEPT !.currentBalance = read.currentBalance - a,
                        !.reservedAmount = read.reservedAmount - a]
    BY <1>3 DEF Escrow!Update, Escrow!Captured
  <2>2. QED BY <1>1, <1>3, <2>1 DEF Accounts
<1>4. CASE op = "release"
  <2>1. m = [now EXCEPT !.reservedAmount = read.reservedAmount - a]
    BY <1>4 DEF Escrow!Update, Escrow!Released
  <2>2. QED BY <1>1, <1>4, <2>1 DEF Accounts
<1>5. QED BY <1>2, <1>3, <1>4

(* The commit of r's transaction, for an order of which it is known that it  *)
(* is one: the hold as it was read, and the amount.                          *)
LEMMA Commits ==
  ASSUME BookType, Owns, NEW r \in Requests, CommitTxn(r)
  PROVE  /\ txn[r].op \in {"reserve", "capture", "release"}
         /\ txn[r].order \in Orders /\ Cost[txn[r].order] \in Nat
         /\ task[r].pc \in Awaits(txn[r].op)
         /\ task[r].order \in {txn[r].order, NoOrder}
         /\ task[r].pc = "idle" <=> task[r].order = NoOrder
         /\ txn'[r] = NoTxn /\ \A q \in Requests : q # r => txn'[q] = txn[q]
         /\ txn' \in [Requests -> Txn]
         /\ money' \in Wallets
         /\ money'.reservedAmount =
              IF txn[r].op = "reserve"
              THEN txn[r].read.reservedAmount + Cost[txn[r].order]
              ELSE txn[r].read.reservedAmount - Cost[txn[r].order]
         /\ lost' = (lost \/ txn[r].read.reservedAmount # money.reservedAmount)
<1>1. /\ txn[r] \in Txn /\ txn[r].op # "idle" /\ OwnOK(task[r], txn[r])
      /\ txn' = [txn EXCEPT ![r] = NoTxn]
      /\ money' = Escrow!Update(txn[r].op, txn[r].read, money, Cost[txn[r].order])
      /\ lost' = (lost \/ txn[r].read.reservedAmount # money.reservedAmount)
  BY DEF BookType, Owns, CommitTxn
<1>2. /\ txn[r].op \in {"reserve", "capture", "release"} /\ txn[r].read \in Wallets
      /\ txn[r] # NoTxn
  BY <1>1, TxnUnopened DEF Txn
<1>3. /\ txn[r].order \in Orders /\ Cost[txn[r].order] \in Nat
      /\ task[r].pc \in Awaits(txn[r].op)
      /\ task[r].order \in {txn[r].order, NoOrder}
      /\ task[r].pc = "idle" <=> task[r].order = NoOrder
      /\ txn[r].op # "reserve" => Cost[txn[r].order] <= txn[r].read.reservedAmount
  BY <1>1, <1>2, OrderConstants DEF OwnOK
<1>4. /\ txn'[r] = NoTxn /\ \A q \in Requests : q # r => txn'[q] = txn[q]
      /\ txn' \in [Requests -> Txn]
  BY <1>1, TxnUnopened DEF BookType
<1>5. money \in Wallets BY DEF BookType
<1>6. PICK m : m = money' OBVIOUS
<1>7. /\ m \in Accounts
      /\ m.reservedAmount = IF txn[r].op = "reserve"
                            THEN txn[r].read.reservedAmount + Cost[txn[r].order]
                            ELSE txn[r].read.reservedAmount - Cost[txn[r].order]
  BY <1>1, <1>2, <1>3, <1>5, <1>6, EscrowWrites
<1>8. m \in Wallets
  <2>1. txn[r].read.reservedAmount \in Nat BY <1>2 DEF Wallets
  <2>2. m.reservedAmount \in Nat BY <1>2, <1>3, <1>7, <2>1
  <2>3. QED BY <1>7, <2>2 DEF Wallets, Accounts
<1>9. QED BY <1>1, <1>2, <1>3, <1>4, <1>6, <1>7, <1>8

(* What a call that is let through opens.                                    *)
LEMMA Opens ==
  ASSUME BookType, NEW r \in Requests, NEW o \in Orders,
         NEW op \in {"reserve", "capture", "release"}, OpenTxn(r, o, op)
  PROVE  /\ txn' \in [Requests -> Txn] /\ \A q \in Requests : q # r => txn'[q] = txn[q]
         /\ txn'[r] # NoTxn /\ txn'[r].op = op /\ txn'[r].order = o
         /\ op # "reserve" => Cost[o] <= txn'[r].read.reservedAmount
<1>1. PICK x : x = [op |-> op, order |-> o, read |-> money] OBVIOUS
<1>2. x \in Txn /\ x.op = op /\ x.order = o /\ x.read = money BY <1>1 DEF BookType, Txn
<1>3. x # NoTxn BY <1>2, TxnUnopened
<1>4. txn' = [txn EXCEPT ![r] = x] BY <1>1 DEF OpenTxn
<1>5. op # "reserve" => Cost[o] <= money.reservedAmount
  BY DEF OpenTxn, Admits, Escrow!Admits
<1>6. QED BY <1>2, <1>3, <1>4, <1>5 DEF BookType

(* A status update is an update of one row.                                  *)
LEMMA StatusSet ==
  ASSUME BookType, NEW r \in Requests, NEW o \in Orders, NEW new \in Statuses,
         SetStatus(r, o, new)
  PROVE  /\ status' \in [Orders -> Statuses] /\ status'[o] = new
         /\ \A p \in Orders : p # o => status'[p] = status[p]
         /\ raced' \subseteq Orders /\ raced \subseteq raced'
         /\ \A q \in Requests : q # r /\ task[q].order = o => o \in raced'
  BY DEF BookType, SetStatus

-----------------------------------------------------------------------------
(* One step.  What the step does to the request that makes it, and to the    *)
(* rows.                                                                     *)

(* The requests other than r stay where they are.                            *)
OthersStay(r) == \A q \in Requests : q # r => task'[q] = task[q] /\ txn'[q] = txn[q]

(* Rows do not go away, and a reference is set only for a row.               *)
RowsStay == /\ \A p \in Orders : status[p] # "NONE" => status'[p] # "NONE"
            /\ \A p \in Orders : ref'[p] => ref[p] \/ status'[p] # "NONE"

(* A step by r keeps what has been said of requests and rows.                *)
LEMMA OwnStep ==
  ASSUME BookType, BookType', Owns, RowExists, NEW r \in Requests,
         OthersStay(r), RowsStay, OwnOK(task'[r], txn'[r]),
         task'[r].pc \notin Creating => status'[task'[r].order] # "NONE"
  PROVE  Owns' /\ RowExists'
<1>1. Owns' BY DEF Owns, OthersStay
<1>2. ASSUME NEW q \in Requests, task'[q].pc \notin Creating
      PROVE  status'[task'[q].order] # "NONE"
  <2>1. CASE q = r BY <1>2, <2>1
  <2>2. CASE q # r
    <3>1. task'[q] = task[q] /\ task[q] \in Task /\ OwnOK(task[q], txn[q])
      BY <2>2 DEF OthersStay, Owns, BookType
    <3>2. task[q].order \in Orders /\ status[task[q].order] # "NONE"
      BY <1>2, <3>1 DEF OwnOK, Task, Creating, RowExists
    <3>3. QED BY <3>1, <3>2 DEF RowsStay
  <2>3. QED BY <2>1, <2>2
<1>3. \A o \in Orders : ref'[o] => status'[o] # "NONE" BY DEF RowsStay, RowExists
<1>4. QED BY <1>1, <1>2, <1>3 DEF RowExists

(* The invariant of types, requests and rows.                                *)
Basics == BookType /\ Owns /\ RowExists

(* A request that goes on to an await for which its transaction is in order, *)
(* or returns, keeps it, if the rows do not go away.                         *)
LEMMA Proceeds ==
  ASSUME Basics, NEW r \in Requests, NEW o \in Orders, NEW pc \in Pcs \ {"idle"},
         Go(r, o, pc), BookType', RowsStay,
         \A q \in Requests : q # r => txn'[q] = txn[q],
         txn'[r].op = "idle" => txn'[r] = NoTxn,
         txn'[r] # NoTxn => /\ txn'[r].order = o
                            /\ pc \in Awaits(txn'[r].op)
                            /\ txn'[r].op # "reserve" =>
                                 Cost[o] <= txn'[r].read.reservedAmount,
         pc \notin Creating => status'[o] # "NONE"
  PROVE  Basics'
<1>1. task'[r].pc = pc /\ task'[r].order = o /\ OthersStay(r)
  BY Moves DEF Basics, OthersStay
<1>2. OwnOK(task'[r], txn'[r]) BY <1>1, OrderConstants DEF OwnOK
<1>3. QED BY <1>1, <1>2, OwnStep DEF Basics

(* So does a request that returns, its transaction open or not.              *)
LEMMA Returns ==
  ASSUME Basics, NEW r \in Requests, Return(r), BookType', RowsStay,
         \A q \in Requests : q # r => txn'[q] = txn[q],
         txn'[r] \in {txn[r], NoTxn}
  PROVE  Basics'
<1>1. task'[r].pc = "idle" /\ task'[r].order = NoOrder /\ OthersStay(r)
  BY DEF Basics, BookType, Return, OthersStay
<1>2. OwnOK(task[r], txn[r]) /\ txn[r] \in Txn BY DEF Basics, Owns, BookType
<1>3. OwnOK(task'[r], txn'[r])
  <2>1. CASE txn'[r] = NoTxn BY <1>1, <2>1 DEF OwnOK
  <2>2. CASE txn'[r] = txn[r] /\ txn[r] # NoTxn
    <3>1. txn[r].op \in {"reserve", "capture", "release"} BY <1>2, <2>2 DEF Txn, OwnOK
    <3>2. "idle" \in Awaits(txn[r].op) BY <3>1 DEF Awaits
    <3>3. QED BY <1>1, <1>2, <2>2, <3>2 DEF OwnOK
  <2>3. QED BY <2>1, <2>2
<1>4. QED BY <1>1, <1>3, OwnStep DEF Basics, Creating

(* Where a request is, its order has a row unless it is being created, and   *)
(* its transaction is the one of that await.                                 *)
LEMMA Here ==
  ASSUME Basics, NEW r \in Requests, NEW o \in Orders, NEW pc \in Pcs, At(r, pc, o)
  PROVE  /\ task[r].pc = pc /\ task[r].order = o
         /\ pc \notin Creating => status[o] # "NONE"
         /\ txn[r].op = "idle" => txn[r] = NoTxn
         /\ txn[r] # NoTxn => /\ txn[r].order = o /\ pc \in Awaits(txn[r].op)
                              /\ txn[r].op \in {"reserve", "capture", "release"}
                              /\ txn[r].op # "reserve" =>
                                   Cost[o] <= txn[r].read.reservedAmount
<1>1. task[r].pc = pc /\ task[r].order = o BY DEF At
<1>2. OwnOK(task[r], txn[r]) /\ txn[r] \in Txn /\ o # NoOrder
  BY OrderConstants DEF Basics, Owns, BookType
<1>3. pc \notin Creating => status[o] # "NONE" BY <1>1 DEF Basics, RowExists
<1>4. txn[r] # NoTxn => txn[r].op \in {"reserve", "capture", "release"}
  BY <1>2 DEF OwnOK, Txn
<1>5. QED BY <1>1, <1>2, <1>3, <1>4 DEF OwnOK

(* The awaits without a transaction.                                         *)
LEMMA NoneOpen ==
  ASSUME Basics, NEW r \in Requests, NEW o \in Orders,
         NEW pc \in Pcs \ {"idle", "reserve_answer", "capture_answer", "publish_placed",
                           "release_answer", "publish_failed"},
         At(r, pc, o)
  PROVE  txn[r] = NoTxn
<1>1. ASSUME txn[r] # NoTxn PROVE FALSE
  <2>1. /\ pc \in Awaits(txn[r].op)
        /\ txn[r].op \in {"reserve", "capture", "release"} BY <1>1, Here
  <2>2. QED BY <2>1 DEF Awaits
<1>2. QED BY <1>1

(* A step that leaves the rows, the money and the transactions alone keeps   *)
(* the types.                                                                *)
LEMMA QuietTypes ==
  ASSUME BookType, UNCHANGED <<rowVars, moneyVars>>, task' \in [Requests -> Task]
  PROVE  BookType' /\ RowsStay
  BY DEF BookType, rowVars, moneyVars, RowsStay

(* So do the steps that arrive, talk to Swiggy, or give up waiting.          *)
LEMMA QuietStep ==
  ASSUME Basics, NEW r \in Requests, NEW o \in Orders,
         \/ Arrival(r, o) \/ ReserveAnswered(r, o) \/ UpdateFoodCart(r, o)
         \/ CheckFoodCart(r, o) \/ PlaceFoodOrder(r, o) \/ Reconcile(r, o)
         \/ Captured(r, o) \/ Released(r, o) \/ TrackFoodOrder(r, o)
         \/ \E pc \in Pcs : Publish(r, o, pc)
  PROVE  Basics'
<1>1. UNCHANGED <<rowVars, moneyVars>>
  BY DEF Arrival, ExecuteOrder, Confirm, PollDelivery, ReserveAnswered, UpdateFoodCart,
         CheckFoodCart, PlaceFoodOrder, Reconcile, Captured, Released, Settled,
         TrackFoodOrder, Publish
<1>2. UNCHANGED <<status, ref, txn>> BY <1>1 DEF rowVars, moneyVars
<1>3. ASSUME Return(r) PROVE Basics'
  <2>1. BookType' /\ RowsStay BY <1>1, <1>3, QuietTypes, Moves DEF Basics
  <2>2. QED BY <1>2, <1>3, <2>1, Returns
<1>4. ASSUME NEW pc \in Pcs \ {"idle"}, Go(r, o, pc),
             txn[r] = NoTxn \/ \E from \in Pcs : At(r, from, o) /\ pc \in Awaits(txn[r].op),
             pc \notin Creating => status[o] # "NONE"
      PROVE  Basics'
  <2>1. BookType' /\ RowsStay BY <1>1, <1>4, QuietTypes, Moves DEF Basics
  <2>2. /\ txn'[r].op = "idle" => txn'[r] = NoTxn
        /\ txn'[r] # NoTxn => /\ txn'[r].order = o
                              /\ pc \in Awaits(txn'[r].op)
                              /\ txn'[r].op # "reserve" =>
                                   Cost[o] <= txn'[r].read.reservedAmount
    BY <1>2, <1>4, Here
  <2>3. QED BY <1>2, <1>4, <2>1, <2>2, Proceeds
<1>5. ASSUME Arrival(r, o) PROVE Basics'
  <2>1. /\ txn[r] = NoTxn
        /\ \E pc \in {"reserve", "place_food_order", "track_food_order"} :
             Go(r, o, pc) /\ (pc # "reserve" => status[o] # "NONE")
    BY <1>5 DEF Arrival, ExecuteOrder, Confirm, PollDelivery, Starts, ConfirmAllowed,
                PollAllowed, Basics, RowExists
  <2>2. QED BY <1>4, <2>1 DEF Pcs, Creating
<1>6. ASSUME ReserveAnswered(r, o) PROVE Basics'
  <2>1. CASE Return(r) BY <1>3, <2>1
  <2>2. CASE txn[r] = NoTxn /\ Go(r, o, "create") BY <1>4, <2>2 DEF Pcs, Creating
  <2>3. QED BY <1>6, <2>1, <2>2 DEF ReserveAnswered
<1>7. ASSUME \/ UpdateFoodCart(r, o) \/ CheckFoodCart(r, o) \/ PlaceFoodOrder(r, o)
             \/ Reconcile(r, o) \/ TrackFoodOrder(r, o)
      PROVE  Basics'
  <2>1. \E from \in {"update_food_cart", "get_food_cart", "place_food_order", "reconcile",
                     "track_food_order"} : At(r, from, o)
    BY <1>7 DEF UpdateFoodCart, CheckFoodCart, PlaceFoodOrder, Reconcile, TrackFoodOrder
  <2>2. txn[r] = NoTxn /\ status[o] # "NONE" BY <2>1, NoneOpen, Here DEF Pcs, Creating
  <2>3. Return(r) \/ \E pc \in {"get_food_cart", "mark_failed", "reconcile", "mark_placed",
                                "mark_delivered"} : Go(r, o, pc)
    BY <1>7 DEF UpdateFoodCart, CheckFoodCart, PlaceFoodOrder, Reconcile, TrackFoodOrder
  <2>4. QED BY <1>3, <1>4, <2>2, <2>3 DEF Pcs
<1>8. ASSUME Captured(r, o) PROVE Basics'
  <2>1. At(r, "capture_answer", o) /\ Go(r, o, "publish_placed")
    BY <1>8 DEF Captured, Settled
  <2>2. status[o] # "NONE" /\ (txn[r] = NoTxn \/ "publish_placed" \in Awaits(txn[r].op))
    BY <2>1, Here DEF Pcs, Creating, Awaits
  <2>3. QED BY <1>4, <2>1, <2>2 DEF Pcs
<1>9. ASSUME Released(r, o) PROVE Basics'
  <2>1. At(r, "release_answer", o) /\ Go(r, o, "publish_failed")
    BY <1>9 DEF Released, Settled
  <2>2. status[o] # "NONE" /\ (txn[r] = NoTxn \/ "publish_failed" \in Awaits(txn[r].op))
    BY <2>1, Here DEF Pcs, Creating, Awaits
  <2>3. QED BY <1>4, <2>1, <2>2 DEF Pcs
<1>10. ASSUME NEW pc \in Pcs, Publish(r, o, pc) PROVE Basics'
  BY <1>3, <1>10 DEF Publish
<1>11. QED BY <1>5, <1>6, <1>7, <1>8, <1>9, <1>10

(* A handler that ends where it is.                                          *)
LEMMA DieStep ==
  ASSUME Basics, NEW r \in Requests, Die(r) PROVE Basics'
<1>1. UNCHANGED <<rowVars, moneyVars>> /\ Return(r) BY DEF Die
<1>2. UNCHANGED <<status, ref, txn>> BY <1>1 DEF rowVars, moneyVars
<1>3. task' \in [Requests -> Task] BY <1>1 DEF Return, Basics, BookType, Task, Pcs
<1>4. BookType' /\ RowsStay BY <1>1, <1>3, QuietTypes DEF Basics
<1>5. QED BY <1>1, <1>2, <1>4, Returns

(* The steps that update a row.                                              *)
RowStep(r, o) == \/ CreateOrder(r, o) \/ MarkPlaced(r, o)
                 \/ MarkFailed(r, o) \/ MarkDelivered(r, o)

(* They keep it: the row is there afterwards, and no transaction is open.    *)
LEMMA RowStepKeeps ==
  ASSUME Basics, NEW r \in Requests, NEW o \in Orders, RowStep(r, o)
  PROVE  Basics'
<1>1. \E from \in {"create", "mark_placed", "mark_failed", "mark_delivered"} : At(r, from, o)
  BY DEF RowStep, CreateOrder, MarkPlaced, MarkFailed, MarkDelivered
<1>2. txn[r] = NoTxn BY <1>1, NoneOpen DEF Pcs
<1>3. /\ UNCHANGED moneyVars
      /\ \E pc \in {"update_food_cart", "capture", "release", "publish_delivered"} : Go(r, o, pc)
      /\ ref' \in [Orders -> BOOLEAN]
      /\ \A p \in Orders : p # o => ref'[p] = ref[p]
      /\ \E new \in Statuses \ {"NONE"} : SetStatus(r, o, new)
  BY DEF RowStep, CreateOrder, MarkPlaced, MarkFailed, MarkDelivered, Statuses, Basics,
         BookType
<1>4. PICK new \in Statuses \ {"NONE"} : SetStatus(r, o, new) BY <1>3
<1>5. /\ status' \in [Orders -> Statuses] /\ status'[o] = new /\ raced' \subseteq Orders
      /\ \A p \in Orders : p # o => status'[p] = status[p]
  BY <1>4, StatusSet DEF Basics
<1>6. task' \in [Requests -> Task] BY <1>3, Moves DEF Pcs, Basics
<1>7. BookType' BY <1>3, <1>5, <1>6 DEF Basics, BookType, moneyVars
<1>8. RowsStay BY <1>3, <1>5 DEF RowsStay
<1>9. UNCHANGED txn BY <1>3 DEF moneyVars
<1>10. QED BY <1>2, <1>3, <1>5, <1>7, <1>8, <1>9, Proceeds, TxnUnopened DEF Pcs

(* The calls of escrow.                                                      *)
LEMMA CallStep ==
  ASSUME Basics, NEW r \in Requests, NEW o \in Orders,
         ReserveHold(r, o) \/ Capture(r, o) \/ Release(r, o)
  PROVE  Basics'
<1>0. UNCHANGED <<rowVars, money, captured, released, lost>>
  BY DEF ReserveHold, Capture, Release, Settle
<1>t. ASSUME task' \in [Requests -> Task], txn' \in [Requests -> Txn]
      PROVE  BookType' /\ RowsStay
  BY <1>0, <1>t DEF Basics, BookType, rowVars, RowsStay
<1>1. ASSUME NEW op \in {"reserve", "capture", "release"}, NEW pc \in Pcs \ {"idle"},
             At(r, op, o), OpenTxn(r, o, op), Go(r, o, pc), pc \in Awaits(op),
             op = "reserve" => pc \in Creating
      PROVE  Basics'
  <2>1. /\ txn' \in [Requests -> Txn] /\ \A q \in Requests : q # r => txn'[q] = txn[q]
        /\ txn'[r] # NoTxn /\ txn'[r].op = op /\ txn'[r].order = o
        /\ op # "reserve" => Cost[o] <= txn'[r].read.reservedAmount
    BY <1>1, Opens DEF Basics
  <2>2. BookType' /\ RowsStay BY <1>1, <1>t, <2>1, Moves DEF Basics
  <2>3. UNCHANGED status BY <1>0 DEF rowVars
  <2>4. op # "reserve" => status[o] # "NONE" BY <1>1, Here DEF Pcs, Creating
  <2>5. pc \notin Creating => status'[o] # "NONE" BY <1>1, <2>3, <2>4
  <2>6. QED BY <1>1, <2>1, <2>2, <2>5, Proceeds
<1>2. ASSUME NEW op \in {"capture", "release"}, NEW pc \in Pcs \ {"idle"},
             At(r, op, o), UNCHANGED txn, Go(r, o, pc)
      PROVE  Basics'
  <2>1. txn[r] = NoTxn /\ status[o] # "NONE" BY <1>2, NoneOpen, Here DEF Pcs, Creating
  <2>2. BookType' /\ RowsStay BY <1>2, <1>t, Moves DEF Basics, BookType
  <2>3. UNCHANGED status BY <1>0 DEF rowVars
  <2>4. QED BY <1>2, <2>1, <2>2, <2>3, Proceeds, TxnUnopened
<1>3. ASSUME Return(r), UNCHANGED txn PROVE Basics'
  <2>1. BookType' /\ RowsStay BY <1>3, <1>t, Moves DEF Basics, BookType
  <2>2. QED BY <1>3, <2>1, Returns
<1>4. CASE ReserveHold(r, o) BY <1>1, <1>3, <1>4 DEF ReserveHold, Pcs, Awaits, Creating
<1>5. CASE Capture(r, o) BY <1>1, <1>2, <1>5 DEF Capture, Settle, Pcs, Awaits
<1>6. CASE Release(r, o) BY <1>1, <1>2, <1>6 DEF Release, Settle, Pcs, Awaits
<1>7. QED BY <1>4, <1>5, <1>6

(* Escrow's own steps.                                                       *)
LEMMA EscrowStep ==
  ASSUME Basics, NEW r \in Requests, CommitTxn(r) \/ AbortTxn(r)
  PROVE  Basics'
<1>1. CASE CommitTxn(r)
  <2>1. /\ txn'[r] = NoTxn /\ \A q \in Requests : q # r => txn'[q] = txn[q]
        /\ txn' \in [Requests -> Txn] /\ money' \in Wallets
    BY <1>1, Commits DEF Basics
  <2>2. /\ UNCHANGED <<status, ref, raced, task>> /\ lost' \in BOOLEAN
        /\ captured' \in [Orders -> Nat] /\ released' \in [Orders -> Nat]
    <3>1. UNCHANGED <<status, ref, raced, task>> /\ lost' \in BOOLEAN
      BY <1>1 DEF CommitTxn, rowVars
    <3>2. /\ captured' = captured \/ captured' = [captured EXCEPT ![txn[r].order] = @ + 1]
          /\ released' = released \/ released' = [released EXCEPT ![txn[r].order] = @ + 1]
      BY <1>1 DEF CommitTxn, Basics, BookType
    <3>3. captured' \in [Orders -> Nat] BY <3>2 DEF Basics, BookType
    <3>4. released' \in [Orders -> Nat] BY <3>2 DEF Basics, BookType
    <3>5. QED BY <3>1, <3>3, <3>4
  <2>3. BookType' BY <2>1, <2>2 DEF Basics, BookType
  <2>4. RowsStay /\ OthersStay(r) BY <2>1, <2>2 DEF RowsStay, OthersStay
  <2>5. OwnOK(task'[r], txn'[r]) BY <2>1, <2>2 DEF OwnOK, Basics, Owns
  <2>6. task'[r].pc \notin Creating => status'[task'[r].order] # "NONE"
    BY <2>2 DEF Basics, RowExists
  <2>7. QED BY <2>3, <2>4, <2>5, <2>6, OwnStep DEF Basics
<1>2. CASE AbortTxn(r)
  <2>1. /\ UNCHANGED <<status, ref, raced, money, captured, released, lost>>
        /\ txn' = [txn EXCEPT ![r] = NoTxn]
        /\ Return(r) \/ UNCHANGED task
    BY <1>2 DEF AbortTxn, rowVars
  <2>2. /\ txn'[r] = NoTxn /\ \A q \in Requests : q # r => txn'[q] = txn[q]
        /\ txn' \in [Requests -> Txn]
    BY <2>1, TxnUnopened DEF Basics, BookType
  <2>3. task' \in [Requests -> Task] BY <2>1 DEF Basics, BookType, Return, Task, Pcs
  <2>4. BookType' /\ RowsStay BY <2>1, <2>2, <2>3 DEF Basics, BookType, RowsStay
  <2>5. CASE Return(r) BY <2>2, <2>4, <2>5, Returns
  <2>6. CASE UNCHANGED task
    <3>1. OthersStay(r) BY <2>2, <2>6 DEF OthersStay
    <3>2. OwnOK(task'[r], txn'[r]) BY <2>2, <2>6 DEF OwnOK, Basics, Owns
    <3>3. task'[r].pc \notin Creating => status'[task'[r].order] # "NONE"
      BY <2>1, <2>6 DEF Basics, RowExists
    <3>4. QED BY <2>4, <3>1, <3>2, <3>3, OwnStep DEF Basics
  <2>7. QED BY <2>1, <2>5, <2>6
<1>3. QED BY <1>1, <1>2

(* The kinds of steps.                                                       *)
LEMMA Kinds ==
  ASSUME [Next]_orderVars
  PROVE  \/ UNCHANGED orderVars
         \/ \E r \in Requests :
              \/ Die(r) \/ CommitTxn(r) \/ AbortTxn(r)
              \/ \E o \in Orders :
                   \/ RowStep(r, o) \/ ReserveHold(r, o) \/ Capture(r, o) \/ Release(r, o)
                   \/ Arrival(r, o) \/ ReserveAnswered(r, o) \/ UpdateFoodCart(r, o)
                   \/ CheckFoodCart(r, o) \/ PlaceFoodOrder(r, o) \/ Reconcile(r, o)
                   \/ Captured(r, o) \/ Released(r, o) \/ TrackFoodOrder(r, o)
                   \/ \E pc \in Pcs : Publish(r, o, pc)
<1>1. ASSUME NEW r \in Requests, NEW o \in Orders,
             PublishPlaced(r, o) \/ PublishFailed(r, o) \/ PublishDelivered(r, o)
      PROVE  \E pc \in Pcs : Publish(r, o, pc)
  BY <1>1 DEF PublishPlaced, PublishFailed, PublishDelivered, Pcs
<1>2. QED BY <1>1 DEF Next, Step, RowStep

(* One step keeps them all.                                                  *)
LEMMA BasicsStep == Basics /\ [Next]_orderVars => Basics'
<1> SUFFICES ASSUME Basics, [Next]_orderVars PROVE Basics' OBVIOUS
<1>1. CASE UNCHANGED orderVars
  BY <1>1 DEF orderVars, Basics, BookType, Owns, RowExists
<1>2. CASE ~UNCHANGED orderVars
  BY <1>2, Kinds, QuietStep, DieStep, RowStepKeeps, CallStep, EscrowStep
<1>3. QED BY <1>1, <1>2

-----------------------------------------------------------------------------
(* The types of Swiggy's side.                                               *)
SideType == /\ cart \in Orders \union {NoOrder}
            /\ placed \in [Orders -> 0..MaxPlacements]

(* A purchase is counted, and leaves a cart.                                 *)
LEMMA BuyTypes ==
  ASSUME SideType, NEW o \in Orders, Buy(o)
  PROVE  /\ cart' \in Orders \union {NoOrder}
         /\ placed' \in [Orders -> 0..MaxPlacements]
<1>1. placed[o] + 1 \in 0..MaxPlacements
  BY OrderConstants DEF SideType, Buy
<1>2. QED BY <1>1 DEF SideType, Buy

(* Only the two calls that change Swiggy's side do.                          *)
LEMMA SwiggyStep ==
  ASSUME [Next]_orderVars
  PROVE  \/ UNCHANGED swiggyVars
         \/ \E r \in Requests, o \in Orders : UpdateFoodCart(r, o) \/ PlaceFoodOrder(r, o)
<1>1. ASSUME NEW r \in Requests, NEW o \in Orders, NEW pc, Publish(r, o, pc)
      PROVE  UNCHANGED swiggyVars
  BY <1>1 DEF Publish
<1>2. QED
  BY Kinds, <1>1
  DEF orderVars, swiggyVars, RowStep, CreateOrder, MarkPlaced, MarkFailed, MarkDelivered,
      ReserveHold, Capture, Release, Settle, Captured, Released, Settled, Arrival,
      ExecuteOrder, Confirm, PollDelivery, ReserveAnswered, CheckFoodCart, Reconcile,
      TrackFoodOrder, Die, CommitTxn, AbortTxn

(* One step keeps these types.                                               *)
LEMMA SideStep == SideType /\ [Next]_orderVars => SideType'
<1> SUFFICES ASSUME SideType, [Next]_orderVars PROVE SideType' OBVIOUS
<1>1. CASE UNCHANGED swiggyVars BY <1>1 DEF SideType, swiggyVars
<1>2. ASSUME NEW r \in Requests, NEW o \in Orders, UpdateFoodCart(r, o) PROVE SideType'
  BY <1>2 DEF UpdateFoodCart, SideType
<1>3. ASSUME NEW r \in Requests, NEW o \in Orders, PlaceFoodOrder(r, o) PROVE SideType'
  BY <1>3, BuyTypes DEF PlaceFoodOrder, SideType, swiggyVars
<1>4. QED BY <1>1, <1>2, <1>3, SwiggyStep

(* In the initial state there are no rows, no requests, and the deposit.     *)
LEMMA TypesInit == Init => Basics /\ SideType
<1> SUFFICES ASSUME Init PROVE Basics /\ SideType OBVIOUS
<1> USE OrderConstants DEF Init
<1>1. PICK w : w = Balance(Deposited, 0) OBVIOUS
<1>2. w \in Wallets /\ money = w BY <1>1 DEF Balance, Wallets
<1>3. BookType BY <1>2, TxnUnopened DEF BookType, Task, Statuses, Pcs
<1>4. Owns /\ RowExists BY TxnUnopened DEF Owns, OwnOK, RowExists, Creating
<1>5. SideType BY DEF SideType
<1>6. QED BY <1>3, <1>4, <1>5 DEF Basics

(* The named types are what TypeOK says.                                     *)
LEMMA TypesImply == Basics /\ SideType => TypeOK
<1> SUFFICES ASSUME Basics, SideType PROVE TypeOK OBVIOUS
<1>1. \A r \in Requests : task[r].pc = "idle" <=> task[r].order = NoOrder
  BY DEF Basics, Owns, OwnOK
<1>2. QED BY <1>1 DEF Basics, BookType, RowExists, SideType, TypeOK, Task, Txn, Creating

(* Type correctness, and: no request works on an order whose row does not    *)
(* exist, whatever requests overlap and whatever faults strike.              *)
THEOREM TypeCorrect == Spec => []TypeOK
<1>1. Basics /\ SideType /\ [Next]_orderVars => (Basics /\ SideType)'
  BY BasicsStep, SideStep
<1>2. QED BY TypesInit, TypesImply, <1>1, PTL DEF Spec

-----------------------------------------------------------------------------
(* The fate of a hold, for an order that no two requests have changed: what  *)
(* a request is about to do with it agrees with its status, and a settlement *)
(* is due only after the status has changed, and for one request.            *)
Unsettled(o) == captured[o] = 0 /\ released[o] = 0

DuringPlacing == {"update_food_cart", "get_food_cart", "place_food_order",
                  "reconcile", "mark_placed", "mark_failed"}

RequestOK(pc, st, known) ==
  /\ pc \in {"reserve", "reserve_answer", "create"} => st = "NONE"
  /\ pc \in DuringPlacing => st = "PENDING_CONFIRMATION"
  /\ pc \in {"track_food_order", "mark_delivered"} => known

OrderOK(o) ==
  /\ \A r \in Requests : task[r].order = o => RequestOK(task[r].pc, status[o], ref[o])
  /\ status[o] \in {"NONE", "PENDING_CONFIRMATION"} =>
       Unsettled(o) /\ \A r \in Requests : ~SettlementDue(r, o)
  /\ ref[o] => status[o] \in {"PLACED", "DELIVERED"}
  /\ \A r \in Requests : SettlementDue(r, o) => Unsettled(o)
  /\ \A q, r \in Requests : SettlementDue(q, o) /\ SettlementDue(r, o) => q = r
  /\ captured[o] + released[o] <= 1

Settling == \A o \in Orders \ raced : OrderOK(o)

(* A step by r that leaves o's row and settlements alone, sends r to an      *)
(* await that o's row allows, and makes no settlement due.                   *)
LEMMA Elsewhere ==
  ASSUME NEW o \in Orders, OrderOK(o), NEW r \in Requests,
         status'[o] = status[o], ref'[o] = ref[o],
         captured'[o] = captured[o], released'[o] = released[o],
         OthersStay(r),
         task'[r].order = o => RequestOK(task'[r].pc, status[o], ref[o]),
         SettlementDue(r, o)' => SettlementDue(r, o)
  PROVE  OrderOK(o)'
<1>1. \A q \in Requests : SettlementDue(q, o)' => SettlementDue(q, o)
  BY DEF OthersStay, SettlementDue, At
<1>2. \A q \in Requests : task'[q].order = o => RequestOK(task'[q].pc, status[o], ref[o])
  BY DEF OthersStay, OrderOK
<1>3. Unsettled(o)' = Unsettled(o) BY DEF Unsettled
<1>4. QED BY <1>1, <1>2, <1>3 DEF OrderOK

(* What the settlement of an order depends on, of one request.               *)
LEMMA DueAt ==
  ASSUME Basics, NEW r \in Requests, NEW o \in Orders
  PROVE  SettlementDue(r, o) <=>
           \/ task[r].pc \in {"capture", "release"} /\ task[r].order = o
           \/ txn[r].order = o /\ txn[r].op # "reserve"
<1>1. task[r] \in Task BY DEF Basics, BookType
<1>2. \A pc : At(r, pc, o) <=> task[r].pc = pc /\ task[r].order = o
  BY <1>1 DEF At, Task
<1>3. QED BY <1>2 DEF SettlementDue

(* The same, in the next state.                                              *)
LEMMA DueNext ==
  ASSUME Basics', NEW r \in Requests, NEW o \in Orders
  PROVE  SettlementDue(r, o)' <=>
           \/ task'[r].pc \in {"capture", "release"} /\ task'[r].order = o
           \/ txn'[r].order = o /\ txn'[r].op # "reserve"
<1>1. task'[r] \in Task BY DEF Basics, BookType
<1>2. \A pc : At(r, pc, o)' <=> task'[r].pc = pc /\ task'[r].order = o
  BY <1>1 DEF At, Task
<1>3. QED BY <1>2 DEF SettlementDue

(* No settlement is due at an await where neither is.                        *)
LEMMA DueFrom ==
  ASSUME Basics, Basics', NEW r \in Requests, NEW o \in Orders, UNCHANGED txn,
         task'[r].pc \notin {"capture", "release"}
  PROVE  SettlementDue(r, o)' => SettlementDue(r, o)
<1>1. SettlementDue(r, o)' <=>
        \/ task'[r].pc \in {"capture", "release"} /\ task'[r].order = o
        \/ txn'[r].order = o /\ txn'[r].op # "reserve"
  BY DueNext
<1>2. QED BY <1>1, DueAt

(* A quiet step.                                                             *)
LEMMA QuietSettling ==
  ASSUME Basics, Settling, NEW r \in Requests, NEW o \in Orders,
         \/ Arrival(r, o) \/ ReserveAnswered(r, o) \/ UpdateFoodCart(r, o)
         \/ CheckFoodCart(r, o) \/ PlaceFoodOrder(r, o) \/ Reconcile(r, o)
         \/ Captured(r, o) \/ Released(r, o) \/ TrackFoodOrder(r, o)
         \/ \E pc \in Pcs : Publish(r, o, pc)
  PROVE  Settling'
<1>0. Basics' BY QuietStep
<1>1. UNCHANGED <<status, ref, captured, released, raced, txn>>
  BY DEF Arrival, ExecuteOrder, Confirm, PollDelivery, ReserveAnswered, UpdateFoodCart,
         CheckFoodCart, PlaceFoodOrder, Reconcile, Captured, Released, Settled,
         TrackFoodOrder, Publish, rowVars, moneyVars
<1>2. \/ Return(r)
      \/ \E pc \in Pcs \ {"capture", "release"} :
           Go(r, o, pc) /\ (o \notin raced => RequestOK(pc, status[o], ref[o]))
  <2>1. ASSUME NEW from \in Pcs, At(r, from, o), o \notin raced
        PROVE  RequestOK(from, status[o], ref[o])
    BY <2>1 DEF At, Settling, OrderOK
  <2>2. CASE \/ Arrival(r, o) \/ Captured(r, o) \/ Released(r, o)
             \/ \E pc \in Pcs : Publish(r, o, pc)
    BY <2>2
    DEF Arrival, ExecuteOrder, Confirm, PollDelivery, Captured, Released, Settled,
        Publish, ConfirmAllowed, PollAllowed, Pcs, RequestOK, DuringPlacing
  <2>3. CASE ReserveAnswered(r, o)
    BY <2>1, <2>3 DEF ReserveAnswered, RequestOK, Pcs, DuringPlacing
  <2>4. CASE UpdateFoodCart(r, o) \/ CheckFoodCart(r, o) \/ PlaceFoodOrder(r, o)
             \/ Reconcile(r, o)
    <3>1. /\ \E from \in DuringPlacing : At(r, from, o)
          /\ Return(r) \/ \E pc \in DuringPlacing : Go(r, o, pc)
      BY <2>4 DEF UpdateFoodCart, CheckFoodCart, PlaceFoodOrder, Reconcile, DuringPlacing
    <3>2. QED BY <2>1, <3>1 DEF RequestOK, Pcs, DuringPlacing
  <2>5. CASE TrackFoodOrder(r, o)
    BY <2>1, <2>5 DEF TrackFoodOrder, RequestOK, Pcs, DuringPlacing
  <2>6. QED BY <2>2, <2>3, <2>4, <2>5
<1>3. ASSUME NEW p \in Orders, p \notin raced' PROVE OrderOK(p)'
  <2>1. OrderOK(p) BY <1>1, <1>3 DEF Settling
  <2>2. OthersStay(r) BY <1>1, <1>2, Moves DEF OthersStay, Basics
  <2>3. /\ task'[r].pc \notin {"capture", "release"}
        /\ task'[r].order = p => RequestOK(task'[r].pc, status[p], ref[p])
    BY <1>1, <1>2, <1>3, Moves, OrderConstants DEF Basics
  <2>4. SettlementDue(r, p)' => SettlementDue(r, p) BY <1>0, <1>1, <2>3, DueFrom
  <2>5. QED BY <1>1, <2>1, <2>2, <2>3, <2>4, Elsewhere
<1>4. QED BY <1>3 DEF Settling

(* A handler that ends leaves no more to settle.                             *)
LEMMA DieSettling ==
  ASSUME Basics, Settling, NEW r \in Requests, Die(r) PROVE Settling'
<1>0. Basics' BY DieStep
<1>1. UNCHANGED <<status, ref, captured, released, raced, txn>> /\ Return(r)
  BY DEF Die, rowVars, moneyVars
<1>2. /\ task'[r].pc = "idle" /\ task'[r].order = NoOrder /\ OthersStay(r)
  BY <1>1 DEF Basics, BookType, Return, OthersStay
<1>3. ASSUME NEW p \in Orders, p \notin raced' PROVE OrderOK(p)'
  <2>1. OrderOK(p) BY <1>1, <1>3 DEF Settling
  <2>2. SettlementDue(r, p)' => SettlementDue(r, p) BY <1>0, <1>1, <1>2, DueFrom
  <2>3. QED BY <1>1, <1>2, <2>1, <2>2, OrderConstants, Elsewhere
<1>4. QED BY <1>3 DEF Settling

(* The status of an order is changed, and no other request is at work on it: *)
(* the hold is unsettled where the settlement becomes due.                   *)
LEMMA RowSettling ==
  ASSUME Basics, Settling, NEW r \in Requests, NEW o \in Orders, RowStep(r, o)
  PROVE  Settling'
<1>0. Basics' BY RowStepKeeps
<1>1. /\ UNCHANGED <<captured, released, txn>>
      /\ \A p \in Orders : p # o => ref'[p] = ref[p]
      /\ \E new \in Statuses \ {"NONE"} : SetStatus(r, o, new)
      /\ \E pc \in Pcs : Go(r, o, pc)
      /\ \E from \in {"create", "mark_placed", "mark_failed", "mark_delivered"} : At(r, from, o)
  BY DEF RowStep, CreateOrder, MarkPlaced, MarkFailed, MarkDelivered, Statuses, Basics,
         BookType, moneyVars, Pcs
<1>2. /\ \A p \in Orders : p # o => status'[p] = status[p]
      /\ raced \subseteq raced'
      /\ \A q \in Requests : q # r /\ task[q].order = o => o \in raced'
  BY <1>1, StatusSet DEF Basics
<1>3. OthersStay(r) BY <1>1, Moves DEF OthersStay, Basics
<1>4. task'[r].order = o BY <1>1, Moves DEF Basics
<1>5. txn[r] = NoTxn /\ txn'[r] = NoTxn BY <1>1, NoneOpen DEF Pcs
<1>6. ASSUME NEW p \in Orders \ raced', p # o PROVE OrderOK(p)'
  <2>1. OrderOK(p) BY <1>2 DEF Settling
  <2>2. ~SettlementDue(r, p)'
    <3>1. SettlementDue(r, p)' <=>
            \/ task'[r].pc \in {"capture", "release"} /\ task'[r].order = p
            \/ txn'[r].order = p /\ txn'[r].op # "reserve"
      BY <1>0, DueNext
    <3>2. QED BY <1>4, <1>5, <1>6, <3>1, TxnUnopened, OrderConstants
  <2>3. QED BY <1>1, <1>2, <1>3, <1>4, <1>6, <2>1, <2>2, Elsewhere
<1>7. ASSUME o \notin raced' PROVE OrderOK(o)'
  <2>1. OrderOK(o) BY <1>2, <1>7 DEF Settling
  <2>2. \A q \in Requests : q # r => task[q].order # o /\ task'[q].order # o
    BY <1>2, <1>3, <1>7 DEF OthersStay
  <2>3. \A q \in Requests : q # r => (SettlementDue(q, o)' <=> SettlementDue(q, o))
    BY <1>3 DEF OthersStay, SettlementDue, At
  <2>4. SettlementDue(r, o)' <=> task'[r].pc \in {"capture", "release"}
    <3>1. SettlementDue(r, o)' <=>
            \/ task'[r].pc \in {"capture", "release"} /\ task'[r].order = o
            \/ txn'[r].order = o /\ txn'[r].op # "reserve"
      BY <1>0, DueNext
    <3>2. QED BY <1>4, <1>5, <3>1, TxnUnopened, OrderConstants
  <2>5. Unsettled(o)' <=> Unsettled(o) BY <1>1 DEF Unsettled
  <2>6. captured'[o] = captured[o] /\ released'[o] = released[o] BY <1>1
  <2>7. \A pc \in Pcs : At(r, pc, o) => RequestOK(pc, status[o], ref[o])
    BY <2>1 DEF At, OrderOK
  <2>8. \A pc \in Pcs : Go(r, o, pc) => task'[r].pc = pc BY Moves DEF Basics
  <2>9. \A new \in Statuses : SetStatus(r, o, new) => status'[o] = new
    BY StatusSet DEF Basics
  <2>10. ASSUME NEW st, NEW pc \in Pcs, NEW k \in BOOLEAN,
                status'[o] = st, ref'[o] = k, task'[r].pc = pc, RequestOK(pc, st, k),
                k => st \in {"PLACED", "DELIVERED"},
                st \in {"NONE", "PENDING_CONFIRMATION"} =>
                  /\ pc \notin {"capture", "release"}
                  /\ Unsettled(o) /\ \A q \in Requests : ~SettlementDue(q, o),
                pc \in {"capture", "release"} =>
                  Unsettled(o) /\ \A q \in Requests : ~SettlementDue(q, o)
         PROVE  OrderOK(o)'
    <3>1. \A q \in Requests : task'[q].order = o => RequestOK(task'[q].pc, status'[o], ref'[o])
      BY <2>2, <2>10
    <3>2. status'[o] \in {"NONE", "PENDING_CONFIRMATION"} =>
            Unsettled(o)' /\ \A q \in Requests : ~SettlementDue(q, o)'
      BY <2>3, <2>4, <2>5, <2>10
    <3>3. ref'[o] => status'[o] \in {"PLACED", "DELIVERED"} BY <2>10
    <3>4. \A q \in Requests : SettlementDue(q, o)' => Unsettled(o)'
      BY <2>1, <2>3, <2>4, <2>5, <2>10 DEF OrderOK
    <3>5. \A q, s \in Requests : SettlementDue(q, o)' /\ SettlementDue(s, o)' => q = s
      BY <2>1, <2>3, <2>4, <2>10 DEF OrderOK
    <3>6. captured'[o] + released'[o] <= 1 BY <2>1, <2>6 DEF OrderOK
    <3>7. QED BY <3>1, <3>2, <3>3, <3>4, <3>5, <3>6 DEF OrderOK
  <2>11. CASE CreateOrder(r, o)
    <3>1. At(r, "create", o) /\ Go(r, o, "update_food_cart")
          /\ SetStatus(r, o, "PENDING_CONFIRMATION") /\ UNCHANGED ref
      BY <2>11 DEF CreateOrder
    <3>2. status[o] = "NONE" BY <2>7, <3>1 DEF RequestOK, Pcs
    <3>3. ref[o] = FALSE /\ Unsettled(o) /\ \A q \in Requests : ~SettlementDue(q, o)
      BY <2>1, <3>2 DEF OrderOK, Basics, BookType
    <3>4. QED BY <2>8, <2>9, <2>10, <3>1, <3>3 DEF Pcs, Statuses, RequestOK, DuringPlacing
  <2>12. CASE MarkPlaced(r, o)
    <3>1. At(r, "mark_placed", o) /\ Go(r, o, "capture")
          /\ SetStatus(r, o, "PLACED") /\ ref'[o] = TRUE
      BY <2>12 DEF MarkPlaced, Basics, BookType
    <3>2. status[o] = "PENDING_CONFIRMATION"
      BY <2>7, <3>1 DEF RequestOK, Pcs, DuringPlacing
    <3>3. Unsettled(o) /\ \A q \in Requests : ~SettlementDue(q, o)
      BY <2>1, <3>2 DEF OrderOK
    <3>4. QED BY <2>8, <2>9, <2>10, <3>1, <3>3 DEF Pcs, Statuses, RequestOK, DuringPlacing
  <2>13. CASE MarkFailed(r, o)
    <3>1. At(r, "mark_failed", o) /\ Go(r, o, "release")
          /\ SetStatus(r, o, "FAILED") /\ UNCHANGED ref
      BY <2>13 DEF MarkFailed
    <3>2. status[o] = "PENDING_CONFIRMATION"
      BY <2>7, <3>1 DEF RequestOK, Pcs, DuringPlacing
    <3>3. ref[o] = FALSE /\ Unsettled(o) /\ \A q \in Requests : ~SettlementDue(q, o)
      BY <2>1, <3>2 DEF OrderOK, Basics, BookType
    <3>4. QED BY <2>8, <2>9, <2>10, <3>1, <3>3 DEF Pcs, Statuses, RequestOK, DuringPlacing
  <2>14. CASE MarkDelivered(r, o)
    <3>1. At(r, "mark_delivered", o) /\ Go(r, o, "publish_delivered")
          /\ SetStatus(r, o, "DELIVERED") /\ UNCHANGED ref
      BY <2>14 DEF MarkDelivered
    <3>2. ref[o] = TRUE
      BY <2>7, <3>1 DEF RequestOK, Pcs, DuringPlacing, Basics, BookType
    <3>3. QED BY <2>8, <2>9, <2>10, <3>1, <3>2 DEF Pcs, Statuses, RequestOK, DuringPlacing
  <2>15. QED BY <2>11, <2>12, <2>13, <2>14 DEF RowStep
<1>8. QED BY <1>6, <1>7 DEF Settling

(* A call of escrow takes the settlement over, or gives it up.               *)
LEMMA CallSettling ==
  ASSUME Basics, Settling, NEW r \in Requests, NEW o \in Orders,
         ReserveHold(r, o) \/ Capture(r, o) \/ Release(r, o)
  PROVE  Settling'
<1>0. Basics' BY CallStep
<1>1. UNCHANGED <<status, ref, captured, released, raced>>
  BY DEF ReserveHold, Capture, Release, Settle, rowVars
<1>2. ASSUME NEW p \in Orders
      PROVE  SettlementDue(r, p)' <=>
               \/ task'[r].pc \in {"capture", "release"} /\ task'[r].order = p
               \/ txn'[r].order = p /\ txn'[r].op # "reserve"
  BY <1>0, DueNext
<1>3. ASSUME NEW op \in {"reserve", "capture", "release"}, At(r, op, o),
             NEW pc \in Pcs \ {"capture", "release"}, Go(r, o, pc),
             pc = "reserve_answer" => op = "reserve", pc \notin DuringPlacing,
             pc \notin {"reserve", "create", "track_food_order", "mark_delivered"},
             OpenTxn(r, o, op) \/ UNCHANGED txn,
             NEW p \in Orders \ raced'
      PROVE  OrderOK(p)'
  <2>1. OrderOK(p) BY <1>1, <1>3 DEF Settling
  <2>2. task[r].pc = op /\ task[r].order = o BY <1>3 DEF At
  <2>3. /\ task'[r].pc = pc /\ task'[r].order = o
        /\ \A q \in Requests : q # r => task'[q] = task[q]
    BY <1>3, Moves DEF Basics
  <2>4. /\ \A q \in Requests : q # r => txn'[q] = txn[q]
        /\ UNCHANGED txn \/ (txn'[r].op = op /\ txn'[r].order = o)
    BY <1>3, Opens DEF Basics
  <2>5. OthersStay(r) BY <2>3, <2>4 DEF OthersStay
  <2>6. SettlementDue(r, p)' => SettlementDue(r, p)
    BY <1>2, <1>3, <2>2, <2>3, <2>4, DueAt
  <2>7. task'[r].order = p => RequestOK(task'[r].pc, status[p], ref[p])
    BY <1>3, <2>1, <2>2, <2>3 DEF OrderOK, RequestOK
  <2>8. QED BY <1>1, <2>1, <2>5, <2>6, <2>7, Elsewhere
<1>4. ASSUME At(r, "reserve", o), Return(r), UNCHANGED txn, NEW p \in Orders \ raced'
      PROVE  OrderOK(p)'
  <2>1. OrderOK(p) BY <1>1, <1>4 DEF Settling
  <2>2. task'[r].pc = "idle" /\ task'[r].order = NoOrder /\ OthersStay(r)
    BY <1>4, Moves DEF Basics, OthersStay
  <2>3. SettlementDue(r, p)' => SettlementDue(r, p) BY <1>2, <1>4, <2>2, DueAt
  <2>4. QED BY <1>1, <2>1, <2>2, <2>3, OrderConstants, Elsewhere
<1>5. CASE ReserveHold(r, o)
  BY <1>3, <1>4, <1>5 DEF ReserveHold, Settling, Pcs, DuringPlacing
<1>6. CASE Capture(r, o)
  BY <1>3, <1>6 DEF Capture, Settle, Settling, Pcs, DuringPlacing
<1>7. CASE Release(r, o)
  BY <1>3, <1>7 DEF Release, Settle, Settling, Pcs, DuringPlacing
<1>8. QED BY <1>5, <1>6, <1>7

(* Escrow's own steps: a settlement that is served is due no more.           *)
LEMMA EscrowSettling ==
  ASSUME Basics, Settling, NEW r \in Requests, CommitTxn(r) \/ AbortTxn(r)
  PROVE  Settling'
<1>0. Basics' BY EscrowStep
<1>1. UNCHANGED <<status, ref, raced>> BY DEF CommitTxn, AbortTxn, rowVars
<1>2. ASSUME NEW p \in Orders
      PROVE  SettlementDue(r, p)' <=>
               \/ task'[r].pc \in {"capture", "release"} /\ task'[r].order = p
               \/ txn'[r].order = p /\ txn'[r].op # "reserve"
  BY <1>0, DueNext
<1>3. CASE CommitTxn(r)
  <2>1. /\ txn[r].op \in {"reserve", "capture", "release"}
        /\ txn[r].order \in Orders /\ task[r].pc \in Awaits(txn[r].op)
        /\ txn'[r] = NoTxn /\ \A q \in Requests : q # r => txn'[q] = txn[q]
    BY <1>3, Commits DEF Basics
  <2>2. UNCHANGED task BY <1>3 DEF CommitTxn
  <2>3. OthersStay(r) BY <2>1, <2>2 DEF OthersStay
  <2>4. task[r].pc \notin {"capture", "release"} BY <2>1 DEF Awaits
  <2>5. \A p \in Orders : ~SettlementDue(r, p)'
    BY <1>2, <2>1, <2>2, <2>4, TxnUnopened, OrderConstants
  <2>6. /\ \A p \in Orders : p # txn[r].order \/ txn[r].op = "reserve" =>
                               captured'[p] = captured[p] /\ released'[p] = released[p]
        /\ txn[r].op = "capture" => /\ captured'[txn[r].order] = captured[txn[r].order] + 1
                                    /\ released'[txn[r].order] = released[txn[r].order]
        /\ txn[r].op = "release" => /\ released'[txn[r].order] = released[txn[r].order] + 1
                                    /\ captured'[txn[r].order] = captured[txn[r].order]
    BY <1>3, <2>1 DEF CommitTxn, Basics, BookType
  <2>7. ASSUME NEW p \in Orders \ raced' PROVE OrderOK(p)'
    <3>1. OrderOK(p) BY <1>1 DEF Settling
    <3>2. CASE p # txn[r].order \/ txn[r].op = "reserve"
      <4>1. task'[r].order = p => RequestOK(task'[r].pc, status[p], ref[p])
        BY <2>2, <3>1 DEF OrderOK
      <4>2. QED BY <1>1, <2>3, <2>5, <2>6, <3>1, <3>2, <4>1, Elsewhere
    <3>3. CASE p = txn[r].order /\ txn[r].op \in {"capture", "release"}
      <4>1. SettlementDue(r, p) BY <3>3, DueAt
      <4>2. /\ Unsettled(p) /\ \A q \in Requests : SettlementDue(q, p) => q = r
            /\ status[p] \notin {"NONE", "PENDING_CONFIRMATION"}
        BY <3>1, <4>1 DEF OrderOK
      <4>3. \A q \in Requests : q # r => ~SettlementDue(q, p)'
        BY <2>3, <4>2 DEF OthersStay, SettlementDue, At
      <4>4. \A q \in Requests : ~SettlementDue(q, p)' BY <2>5, <4>3
      <4>5. captured'[p] + released'[p] <= 1 BY <2>6, <3>3, <4>2 DEF Unsettled
      <4>6. \A q \in Requests : task'[q].order = p => RequestOK(task'[q].pc, status'[p], ref'[p])
        BY <1>1, <2>2, <3>1 DEF OrderOK
      <4>7. ref'[p] => status'[p] \in {"PLACED", "DELIVERED"} BY <1>1, <3>1 DEF OrderOK
      <4>8. status'[p] \notin {"NONE", "PENDING_CONFIRMATION"} BY <1>1, <4>2
      <4>9. QED BY <4>4, <4>5, <4>6, <4>7, <4>8 DEF OrderOK
    <3>4. QED BY <2>1, <3>2, <3>3
  <2>8. QED BY <2>7 DEF Settling
<1>4. CASE AbortTxn(r)
  <2>1. /\ UNCHANGED <<captured, released>> /\ txn' = [txn EXCEPT ![r] = NoTxn]
        /\ \/ UNCHANGED task
           \/ task[r].pc = "reserve_answer" /\ Return(r)
    BY <1>4 DEF AbortTxn
  <2>2. /\ txn'[r] = NoTxn /\ \A q \in Requests : q # r => txn'[q] = txn[q]
    BY <2>1 DEF Basics, BookType
  <2>3. /\ \A q \in Requests : q # r => task'[q] = task[q]
        /\ task'[r] = task[r] \/ (task'[r].pc = "idle" /\ task'[r].order = NoOrder)
    BY <2>1 DEF Basics, BookType, Return
  <2>4. OthersStay(r) BY <2>2, <2>3 DEF OthersStay
  <2>5. ASSUME NEW p \in Orders \ raced' PROVE OrderOK(p)'
    <3>1. OrderOK(p) BY <1>1 DEF Settling
    <3>2. SettlementDue(r, p)' => SettlementDue(r, p)
      BY <1>2, <2>2, <2>3, TxnUnopened, OrderConstants, DueAt
    <3>3. task'[r].order = p => RequestOK(task'[r].pc, status[p], ref[p])
      BY <2>3, <3>1, OrderConstants DEF OrderOK
    <3>4. QED BY <1>1, <2>1, <2>4, <3>1, <3>2, <3>3, Elsewhere
  <2>6. QED BY <2>5 DEF Settling
<1>5. QED BY <1>3, <1>4

(* One step keeps the invariant.                                             *)
LEMMA SettlingStep == Basics /\ Settling /\ [Next]_orderVars => Settling'
<1> SUFFICES ASSUME Basics, Settling, [Next]_orderVars PROVE Settling' OBVIOUS
<1>1. CASE UNCHANGED orderVars
  <2>1. \A o \in Orders : (\A r \in Requests : SettlementDue(r, o)' <=> SettlementDue(r, o))
                          /\ (Unsettled(o)' <=> Unsettled(o))
    BY <1>1 DEF orderVars, Unsettled, SettlementDue, At
  <2>2. \A o \in Orders : OrderOK(o) => OrderOK(o)'
    BY <1>1, <2>1 DEF orderVars, OrderOK
  <2>3. QED BY <1>1, <2>2 DEF orderVars, Settling
<1>2. CASE ~UNCHANGED orderVars
  BY <1>2, Kinds, QuietSettling, DieSettling, RowSettling, CallSettling, EscrowSettling
<1>3. QED BY <1>1, <1>2

(* At the start nothing is settled and nobody is at work.                    *)
LEMMA SettlingInit == Init => Settling
<1> SUFFICES ASSUME Init, NEW o \in Orders PROVE OrderOK(o) BY DEF Settling
<1>1. Basics BY TypesInit
<1>2. \A r \in Requests : task[r].order # o /\ txn[r].order # o /\ task[r].pc = "idle"
  BY TxnUnopened, OrderConstants DEF Init
<1>3. \A r \in Requests : ~SettlementDue(r, o) BY <1>1, <1>2, DueAt
<1>4. status[o] = "NONE" /\ ref[o] = FALSE /\ captured[o] = 0 /\ released[o] = 0
  BY DEF Init
<1>5. QED BY <1>2, <1>3, <1>4 DEF OrderOK, Unsettled

(* The moves StatusForward allows.                                           *)
Forward(from, to) ==
  <<from, to>> \in
    {<<"NONE", "PENDING_CONFIRMATION">>, <<"PENDING_CONFIRMATION", "PLACED">>,
     <<"PENDING_CONFIRMATION", "FAILED">>, <<"PLACED", "DELIVERED">>}

(* A step that starts in the invariant moves the status of an order only so, *)
(* unless two requests have changed it.                                      *)
LEMMA ForwardStep ==
  ASSUME Basics, Settling, [Next]_orderVars,
         NEW p \in Orders \ raced, status'[p] # status[p]
  PROVE  Forward(status[p], status'[p])
<1>1. \/ \E r \in Requests, o \in Orders : RowStep(r, o)
      \/ UNCHANGED status
  <2>1. ASSUME NEW r \in Requests, NEW o \in Orders, NEW pc, Publish(r, o, pc)
        PROVE  UNCHANGED status
    BY <2>1 DEF Publish, rowVars
  <2>2. QED
    BY Kinds, <2>1
    DEF orderVars, rowVars, ReserveHold, Capture, Release, Settle, Captured, Released,
        Settled, Arrival, ExecuteOrder, Confirm, PollDelivery, ReserveAnswered,
        UpdateFoodCart, CheckFoodCart, PlaceFoodOrder, Reconcile, TrackFoodOrder, Die,
        CommitTxn, AbortTxn
<1>2. PICK r \in Requests, o \in Orders : RowStep(r, o) BY <1>1
<1>3. ASSUME NEW pc \in Pcs, At(r, pc, p) PROVE RequestOK(pc, status[p], ref[p])
  BY <1>3 DEF At, Settling, OrderOK
<1>4. ASSUME NEW new, SetStatus(r, o, new) PROVE o = p /\ status'[p] = new
  BY <1>4 DEF SetStatus, Basics, BookType
<1>5. CASE CreateOrder(r, o)
  BY <1>3, <1>4, <1>5 DEF CreateOrder, RequestOK, Pcs, Forward
<1>6. CASE MarkPlaced(r, o)
  BY <1>3, <1>4, <1>6 DEF MarkPlaced, RequestOK, Pcs, DuringPlacing, Forward
<1>7. CASE MarkFailed(r, o)
  BY <1>3, <1>4, <1>7 DEF MarkFailed, RequestOK, Pcs, DuringPlacing, Forward
<1>8. CASE MarkDelivered(r, o)
  <2>1. ref[p] /\ status'[p] = "DELIVERED"
    BY <1>3, <1>4, <1>8 DEF MarkDelivered, RequestOK, Pcs
  <2>2. status[p] \in {"PLACED", "DELIVERED"} BY <2>1 DEF Settling, OrderOK
  <2>3. QED BY <2>1, <2>2 DEF Forward
<1>9. QED BY <1>2, <1>5, <1>6, <1>7, <1>8 DEF RowStep

(* The hold of an order is settled at most once, whatever dies, times out,   *)
(* is served late or is retried, however requests overlap -- as long as the   *)
(* status of that order is not changed under the eyes of a second request.   *)
THEOREM SettledOnce == Spec => []SettledAtMostOnce
<1>1. Basics /\ Settling /\ [Next]_orderVars => (Basics /\ Settling)'
  BY BasicsStep, SettlingStep
<1>2. Settling => SettledAtMostOnce
  BY DEF Settling, OrderOK, SettledAtMostOnce
<1>3. QED BY TypesInit, SettlingInit, <1>1, <1>2, PTL DEF Spec

(* The status of an order only moves forward -- no late handler fails a      *)
(* placed order or reopens a failed one -- until two requests have changed   *)
(* it under each other's eyes.                                               *)
THEOREM StatusMovesForward == Spec => StatusForward
<1>1. Basics /\ Settling /\ [Next]_orderVars => (Basics /\ Settling)'
  BY BasicsStep, SettlingStep
<1>2. Basics /\ Settling /\ [Next]_orderVars
        => [\A o \in Orders \ raced : status'[o] # status[o] =>
              <<status[o], status'[o]>> \in
                {<<"NONE", "PENDING_CONFIRMATION">>,
                 <<"PENDING_CONFIRMATION", "PLACED">>,
                 <<"PENDING_CONFIRMATION", "FAILED">>,
                 <<"PLACED", "DELIVERED">>}]_orderVars
  BY ForwardStep DEF Forward
<1>3. QED BY TypesInit, SettlingInit, <1>1, <1>2, PTL DEF Spec, StatusForward

-----------------------------------------------------------------------------
(* What a set of orders costs. The sum is a recursion over finite sets; what *)
(* holds of it is shown on a smallest set that fails: among the subsets of a *)
(* finite set, a family that is not empty has a least member.                *)
LEMMA LeastSet ==
  ASSUME NEW S, IsFiniteSet(S), NEW Bad \in SUBSET (SUBSET S), Bad # {}
  PROVE  \E T \in Bad : \A U \in SUBSET T : U # T => U \notin Bad
<1> DEFINE R == StrictSubsetOrdering(S)
<1>1. IsWellFoundedOn(R, FiniteSubsetsOf(S)) BY FS_StrictSubsetOrderingWellFounded
<1>2. Bad \subseteq FiniteSubsetsOf(S) BY FS_Subset DEF FiniteSubsetsOf
<1>3. PICK T \in Bad : \A U \in Bad : <<U, T>> \notin R
  <2> HIDE DEF R
  <2>1. QED BY <1>1, <1>2, WFMin
<1>4. QED BY <1>3 DEF StrictSubsetOrdering

(* The sum that HoldBacksPending names.                                      *)
CostOf(S) == MapThenSumSet(LAMBDA o : Cost[o], S)

(* The element that the fold takes first.                                    *)
Pick(S) == CHOOSE o \in S : TRUE

(* A function that sums the costs of the subsets of S.                       *)
Sums(f, S) ==
  f = [s \in SUBSET S |-> IF s = {} THEN 0 ELSE Cost[Pick(s)] + f[s \ {Pick(s)}]]

(* The function by which the fold is defined.                                *)
Total(S) == CHOOSE f : Sums(f, S)

(* The fold takes an element of the set.                                     *)
LEMMA PickIn == ASSUME NEW S, S # {} PROVE Pick(S) \in S
BY DEF Pick

(* The sum, in these terms.                                                  *)
LEMMA CostUnfold == ASSUME NEW S PROVE CostOf(S) = Total(S)[S]
BY DEF CostOf, MapThenSumSet, MapThenFoldSet, Sums, Pick, Total

(* Such a function, at a set.                                                *)
LEMMA SumsAt ==
  ASSUME NEW S, NEW f, Sums(f, S), NEW s \in SUBSET S
  PROVE  f[s] = IF s = {} THEN 0 ELSE Cost[Pick(s)] + f[s \ {Pick(s)}]
BY DEF Sums

(* Two such functions agree on the finite sets that both know.               *)
LEMMA SumsAgree ==
  ASSUME NEW S, IsFiniteSet(S), NEW A, NEW B, S \subseteq A, S \subseteq B,
         NEW f, NEW g, Sums(f, A), Sums(g, B)
  PROVE  f[S] = g[S]
<1> DEFINE Bad == {s \in SUBSET S : f[s] # g[s]}
<1>1. ASSUME Bad # {} PROVE FALSE
  <2>1. PICK T \in Bad : \A U \in SUBSET T : U # T => U \notin Bad
    <3>1. Bad \in SUBSET (SUBSET S) OBVIOUS
    <3> HIDE DEF Bad
    <3>2. QED BY <1>1, <3>1, LeastSet
  <2>2. T \in SUBSET A /\ T \in SUBSET B OBVIOUS
  <2>3. CASE T = {} BY <2>2, <2>3, SumsAt
  <2>4. CASE T # {}
    <3>1. Pick(T) \in T BY <2>4, PickIn
    <3>2. f[T \ {Pick(T)}] = g[T \ {Pick(T)}] BY <2>1, <3>1
    <3>3. f[T] = Cost[Pick(T)] + f[T \ {Pick(T)}] BY <2>2, <2>4, SumsAt
    <3>4. g[T] = Cost[Pick(T)] + g[T \ {Pick(T)}] BY <2>2, <2>4, SumsAt
    <3>5. QED BY <2>1, <3>2, <3>3, <3>4
  <2>5. QED BY <2>3, <2>4
<1>2. QED BY <1>1

(* There is such a function for every finite set: the sums of the proper     *)
(* subsets, put together, and one more cost.                                 *)
LEMMA SumsExist == ASSUME NEW S, IsFiniteSet(S) PROVE Sums(Total(S), S)
<1> DEFINE Bad == {s \in SUBSET S : ~Sums(Total(s), s)}
<1>1. ASSUME Bad # {} PROVE FALSE
  <2>1. PICK T \in Bad : \A U \in SUBSET T : U # T => U \notin Bad
    <3>1. Bad \in SUBSET (SUBSET S) OBVIOUS
    <3> HIDE DEF Bad
    <3>2. QED BY <1>1, <3>1, LeastSet
  <2>2. \A U \in SUBSET T : U # T => Sums(Total(U), U) BY <2>1
  <2> DEFINE step(s) == IF s = {} THEN 0
                        ELSE Cost[Pick(s)] + Total(s \ {Pick(s)})[s \ {Pick(s)}]
             g == [s \in SUBSET T |-> step(s)]
  <2>3. ASSUME NEW s \in SUBSET T, s # T PROVE Total(s)[s] = g[s]
    <3>1. CASE s = {} BY <2>2, <2>3, <3>1, SumsAt
    <3>2. CASE s # {}
      <4> DEFINE u == s \ {Pick(s)}
      <4>1. Pick(s) \in s /\ u \subseteq s /\ u \in SUBSET T /\ u # T BY <2>3, <3>2, PickIn
      <4>2. Sums(Total(s), s) /\ Sums(Total(u), u) BY <2>2, <2>3, <4>1
      <4>3. IsFiniteSet(u) BY <4>1, FS_Subset
      <4>4. Total(s)[u] = Total(u)[u]
        <5> HIDE DEF u
        <5>1. QED BY <4>1, <4>2, <4>3, SumsAgree
      <4>5. Total(s)[s] = Cost[Pick(s)] + Total(s)[u] BY <3>2, <4>2, SumsAt
      <4>6. QED BY <3>2, <4>4, <4>5
    <3>3. QED BY <3>1, <3>2
  <2>4. ASSUME NEW s \in SUBSET T, s # {}
        PROVE  Total(s \ {Pick(s)})[s \ {Pick(s)}] = g[s \ {Pick(s)}]
    <3>1. Pick(s) \in s BY <2>4, PickIn
    <3>2. s \ {Pick(s)} \in SUBSET T /\ s \ {Pick(s)} # T BY <3>1
    <3> HIDE DEF g
    <3>3. QED BY <2>3, <3>2
  <2>5. \A s \in SUBSET T :
          step(s) = IF s = {} THEN 0 ELSE Cost[Pick(s)] + g[s \ {Pick(s)}]
    BY <2>4
  <2>6. Sums(g, T)
    <3>1. g = [s \in SUBSET T |-> step(s)] OBVIOUS
    <3> HIDE DEF g, step
    <3>2. QED BY <2>5, <3>1 DEF Sums
  <2>7. Sums(Total(T), T) BY <2>6 DEF Total
  <2>8. QED BY <2>1, <2>7
<1>2. S \notin Bad BY <1>1
<1>3. QED BY <1>2

(* No orders cost nothing.                                                   *)
LEMMA CostEmpty == CostOf({}) = 0
<1>1. IsFiniteSet({}) BY FS_EmptySet
<1>2. Sums(Total({}), {}) BY <1>1, SumsExist
<1>3. QED BY <1>2, SumsAt, CostUnfold

(* The fold takes one order out of the sum.                                  *)
LEMMA CostPick ==
  ASSUME NEW S, IsFiniteSet(S), S # {}
  PROVE  CostOf(S) = Cost[Pick(S)] + CostOf(S \ {Pick(S)})
<1> DEFINE u == S \ {Pick(S)}
<1>1. Sums(Total(S), S) BY SumsExist
<1>2. IsFiniteSet(u) /\ u \subseteq S BY FS_Subset
<1>3. Sums(Total(u), u) BY <1>2, SumsExist
<1>4. Total(S)[u] = Total(u)[u]
  <2> HIDE DEF u
  <2>1. QED BY <1>1, <1>2, <1>3, SumsAgree
<1>5. Total(S)[S] = Cost[Pick(S)] + Total(S)[u] BY <1>1, SumsAt
<1>6. QED BY <1>4, <1>5, CostUnfold

(* The sum is a number.                                                      *)
LEMMA CostNat == ASSUME NEW S \in SUBSET Orders PROVE CostOf(S) \in Nat
<1> DEFINE Bad == {s \in SUBSET S : CostOf(s) \notin Nat}
<1>0. IsFiniteSet(S) BY OrderConstants, FS_Subset
<1>1. ASSUME Bad # {} PROVE FALSE
  <2>1. PICK T \in Bad : \A U \in SUBSET T : U # T => U \notin Bad
    <3>1. Bad \in SUBSET (SUBSET S) OBVIOUS
    <3> HIDE DEF Bad
    <3>2. QED BY <1>0, <1>1, <3>1, LeastSet
  <2>2. CASE T = {} BY <2>2, CostEmpty
  <2>3. CASE T # {}
    <3>1. Pick(T) \in T BY <2>3, PickIn
    <3>2. CostOf(T \ {Pick(T)}) \in Nat BY <2>1, <3>1
    <3>3. Cost[Pick(T)] \in Nat BY <3>1, OrderConstants
    <3>4. IsFiniteSet(T) BY <1>0, FS_Subset
    <3>5. QED BY <2>1, <2>3, <3>2, <3>3, <3>4, CostPick
  <2>4. QED BY <2>2, <2>3
<1>2. QED BY <1>1

(* Any order may be taken out of the sum, whichever the fold takes first.    *)
LEMMA CostRemove ==
  ASSUME NEW S \in SUBSET Orders, NEW x \in S
  PROVE  CostOf(S) = CostOf(S \ {x}) + Cost[x]
<1> DEFINE Bad == {s \in SUBSET S : \E y \in s : CostOf(s) # CostOf(s \ {y}) + Cost[y]}
<1>0. IsFiniteSet(S) BY OrderConstants, FS_Subset
<1>1. ASSUME Bad # {} PROVE FALSE
  <2>1. PICK T \in Bad : \A U \in SUBSET T : U # T => U \notin Bad
    <3>1. Bad \in SUBSET (SUBSET S) OBVIOUS
    <3> HIDE DEF Bad
    <3>2. QED BY <1>0, <1>1, <3>1, LeastSet
  <2>2. PICK y \in T : CostOf(T) # CostOf(T \ {y}) + Cost[y] OBVIOUS
  <2> DEFINE z == Pick(T)
  <2>3. z \in T BY PickIn
  <2>4. IsFiniteSet(T) /\ T \subseteq Orders BY <1>0, FS_Subset
  <2>5. CostOf(T) = Cost[z] + CostOf(T \ {z}) BY <2>3, <2>4, CostPick
  <2> HIDE DEF z
  <2>6. /\ Cost[y] \in Nat /\ Cost[z] \in Nat /\ CostOf(T \ {z}) \in Nat
        /\ CostOf((T \ {z}) \ {y}) \in Nat /\ CostOf((T \ {y}) \ {z}) \in Nat
    BY <2>3, <2>4, OrderConstants, CostNat
  <2>7. CASE y = z BY <2>2, <2>5, <2>6, <2>7
  <2>8. CASE y # z
    <3>1. T \ {z} \notin Bad /\ T \ {y} \notin Bad BY <2>1, <2>3
    <3>2. CostOf(T \ {z}) = CostOf((T \ {z}) \ {y}) + Cost[y] BY <2>8, <3>1
    <3>3. CostOf(T \ {y}) = CostOf((T \ {y}) \ {z}) + Cost[z] BY <2>3, <2>8, <3>1
    <3> DEFINE both == T \ {y, z}
    <3>4. (T \ {z}) \ {y} = both /\ (T \ {y}) \ {z} = both OBVIOUS
    <3>5. CostOf(T \ {z}) = CostOf(both) + Cost[y] BY <3>2, <3>4
    <3>6. CostOf(T \ {y}) = CostOf(both) + Cost[z] BY <3>3, <3>4
    <3>7. CostOf(both) \in Nat BY <2>6, <3>4
    <3> HIDE DEF both
    <3>8. CostOf(T) = Cost[z] + (CostOf(both) + Cost[y]) BY <2>5, <3>5
    <3>9. CostOf(T) # (CostOf(both) + Cost[z]) + Cost[y] BY <2>2, <3>6
    <3>10. QED BY <2>6, <3>7, <3>8, <3>9
  <2>9. QED BY <2>7, <2>8
<1>2. S \notin Bad BY <1>1
<1>3. QED BY <1>2

(* More orders cost no less.                                                 *)
LEMMA CostGrows ==
  ASSUME NEW B \in SUBSET Orders, NEW A \in SUBSET B
  PROVE  CostOf(A) <= CostOf(B)
<1> DEFINE Bad == {s \in SUBSET B : A \subseteq s /\ ~(CostOf(A) <= CostOf(s))}
<1>0. IsFiniteSet(B) BY OrderConstants, FS_Subset
<1>1. ASSUME Bad # {} PROVE FALSE
  <2>1. PICK T \in Bad : \A U \in SUBSET T : U # T => U \notin Bad
    <3>1. Bad \in SUBSET (SUBSET B) OBVIOUS
    <3> HIDE DEF Bad
    <3>2. QED BY <1>0, <1>1, <3>1, LeastSet
  <2>2. T \in SUBSET Orders /\ A \in SUBSET Orders OBVIOUS
  <2>3. T # A
    <3>1. CostOf(A) \in Nat BY <2>2, CostNat
    <3>2. CostOf(A) <= CostOf(A) BY <3>1
    <3>3. QED BY <3>2
  <2>4. PICK x \in T : x \notin A BY <2>3
  <2>5. T \ {x} \notin Bad BY <2>1, <2>4
  <2>6. CostOf(A) <= CostOf(T \ {x}) BY <2>4, <2>5
  <2>7. CostOf(T) = CostOf(T \ {x}) + Cost[x] BY <2>2, <2>4, CostRemove
  <2>8. CostOf(A) \in Nat /\ CostOf(T \ {x}) \in Nat /\ Cost[x] \in Nat
    BY <2>2, <2>4, CostNat, OrderConstants
  <2>9. CostOf(A) <= CostOf(T) BY <2>6, <2>7, <2>8
  <2>10. QED BY <2>9
<1>2. QED BY <1>1

(* An amount that covers the orders of S covers those of a part of S; with   *)
(* the cost of o, those and o; without it, those other than o.               *)
LEMMA Covers ==
  ASSUME NEW S \in SUBSET Orders, NEW T \in SUBSET Orders, NEW o \in Orders,
         NEW h \in Nat, h >= CostOf(S)
  PROVE  /\ T \subseteq S => h >= CostOf(T)
         /\ T \subseteq S \union {o} => h + Cost[o] >= CostOf(T)
         /\ o \in S /\ T \subseteq S \ {o} => h - Cost[o] >= CostOf(T)
<1>1. Cost[o] \in Nat /\ CostOf(S) \in Nat /\ CostOf(T) \in Nat
  BY CostNat, OrderConstants
<1>2. ASSUME T \subseteq S PROVE h >= CostOf(T)
  BY <1>1, <1>2, CostGrows
<1>3. ASSUME T \subseteq S \union {o} PROVE h + Cost[o] >= CostOf(T)
  <2> DEFINE U == S \union {o}
  <2>1. CostOf(T) <= CostOf(U) /\ CostOf(U) \in Nat BY <1>3, CostGrows, CostNat
  <2>2. CostOf(U) <= CostOf(S) + Cost[o]
    <3>1. CASE o \in S
      <4>1. U = S BY <3>1
      <4>2. QED BY <1>1, <4>1
    <3>2. CASE o \notin S
      <4>1. U \ {o} = S BY <3>2
      <4>2. CostOf(U) = CostOf(U \ {o}) + Cost[o] BY CostRemove
      <4> HIDE DEF U
      <4>3. CostOf(U) = CostOf(S) + Cost[o] BY <4>1, <4>2
      <4>4. QED BY <1>1, <4>3
    <3>3. QED BY <3>1, <3>2
  <2> HIDE DEF U
  <2>3. QED BY <1>1, <2>1, <2>2
<1>4. ASSUME o \in S, T \subseteq S \ {o} PROVE h - Cost[o] >= CostOf(T)
  <2>1. CostOf(T) <= CostOf(S \ {o}) /\ CostOf(S \ {o}) \in Nat
    BY <1>4, CostGrows, CostNat
  <2>2. CostOf(S) = CostOf(S \ {o}) + Cost[o] BY <1>4, CostRemove
  <2>3. QED BY <1>1, <2>1, <2>2
<1>5. QED BY <1>2, <1>3, <1>4

(* A request has a claim on the hold of its order when the hold has been     *)
(* taken and the row is not created yet, or when its settlement is due.      *)
Claims(r, o) == \/ task[r].order = o /\ task[r].pc = "create"
                \/ task[r].order = o /\ task[r].pc = "reserve_answer" /\ txn[r] = NoTxn
                \/ task[r].order = o /\ task[r].pc \in {"capture", "release"}
                \/ txn[r].order = o /\ txn[r].op # "reserve"

(* The orders whose money must still be held.                                *)
Backed == {o \in Orders : \/ status[o] = "PENDING_CONFIRMATION"
                          \/ \E r \in Requests : Claims(r, o)}

(* The wallet holds it. HoldBacksPending alone is not inductive: a hold that *)
(* has been taken for a row not yet created could be spent on another order. *)
HoldCovers == lost \/ raced # {} \/ money.reservedAmount >= CostOf(Backed)

(* What a step by r, about order o, does to the orders that must be backed.  *)
LEMMA BackedStep ==
  ASSUME NEW r \in Requests, NEW o \in Orders, OthersStay(r),
         \A p \in Orders : p # o => /\ status'[p] = status[p]
                                    /\ Claims(r, p)' => Claims(r, p)
  PROVE  /\ Backed' \subseteq Backed \union {o}
         /\ status'[o] # "PENDING_CONFIRMATION" /\ ~Claims(r, o)'
            /\ (\A q \in Requests : q # r => ~Claims(q, o))
              => Backed' \subseteq Backed \ {o}
         /\ (status'[o] = "PENDING_CONFIRMATION" => status[o] = "PENDING_CONFIRMATION")
            /\ (Claims(r, o)' => Claims(r, o))
              => Backed' \subseteq Backed
<1>1. \A q \in Requests, p \in Orders : q # r => (Claims(q, p)' <=> Claims(q, p))
  BY DEF OthersStay, Claims
<1>2. QED BY <1>1 DEF Backed

(* The sum depends on the state only through the set.                        *)
LEMMA CostPrimed == CostOf(Backed)' = CostOf(Backed')
BY DEF CostOf, MapThenSumSet, MapThenFoldSet

(* HoldCovers after a step.                                                  *)
LEMMA Covered ==
  ASSUME money'.reservedAmount >= CostOf(Backed')
  PROVE  HoldCovers'
<1>1. CostOf(Backed)' = CostOf(Backed') BY CostPrimed
<1>2. QED BY <1>1 DEF HoldCovers

(* It is kept by a step that leaves the hold alone and adds no claim.        *)
LEMMA StillCovers ==
  ASSUME Basics, HoldCovers, money'.reservedAmount = money.reservedAmount,
         UNCHANGED lost, raced \subseteq raced',
         raced = {} => Backed' \subseteq Backed
  PROVE  HoldCovers'
<1>1. Backed \in SUBSET Orders /\ Backed' \in SUBSET Orders BY DEF Backed
<1>2. CASE lost \/ raced # {} BY <1>2 DEF HoldCovers
<1>3. CASE ~lost /\ raced = {}
  <2>1. /\ CostOf(Backed') <= CostOf(Backed) /\ CostOf(Backed') \in Nat
        /\ CostOf(Backed) \in Nat
    BY <1>1, <1>3, CostGrows, CostNat
  <2>2. money.reservedAmount \in Nat BY DEF Basics, BookType, Wallets
  <2>3. QED BY <1>3, <2>1, <2>2, Covered DEF HoldCovers
<1>4. QED BY <1>2, <1>3

(* A quiet step adds no claim.                                               *)
LEMMA QuietHold ==
  ASSUME Basics, HoldCovers, NEW r \in Requests, NEW o \in Orders,
         \/ Arrival(r, o) \/ ReserveAnswered(r, o) \/ UpdateFoodCart(r, o)
         \/ CheckFoodCart(r, o) \/ PlaceFoodOrder(r, o) \/ Reconcile(r, o)
         \/ Captured(r, o) \/ Released(r, o) \/ TrackFoodOrder(r, o)
         \/ \E pc \in Pcs : Publish(r, o, pc)
  PROVE  HoldCovers'
<1>1. UNCHANGED <<status, raced, txn, money, lost>>
  BY DEF Arrival, ExecuteOrder, Confirm, PollDelivery, ReserveAnswered, UpdateFoodCart,
         CheckFoodCart, PlaceFoodOrder, Reconcile, Captured, Released, Settled,
         TrackFoodOrder, Publish, rowVars, moneyVars
<1>2. \/ Return(r)
      \/ \E pc \in Pcs \ {"create", "capture", "release", "reserve_answer"} : Go(r, o, pc)
      \/ Go(r, o, "create") /\ At(r, "reserve_answer", o) /\ txn[r] = NoTxn
      \/ ReserveAnswered(r, o) /\ Return(r)
  BY DEF Arrival, ExecuteOrder, Confirm, PollDelivery, ReserveAnswered, UpdateFoodCart,
         CheckFoodCart, PlaceFoodOrder, Reconcile, Captured, Released, Settled,
         TrackFoodOrder, Publish, Pcs
<1>3. OthersStay(r) BY <1>1, <1>2, Moves DEF OthersStay, Basics, Pcs
<1>4. \A p \in Orders : Claims(r, p)' => Claims(r, p)
  <2>1. CASE Return(r)
    <3>1. task'[r].pc = "idle" BY <2>1, Moves DEF Basics
    <3>2. QED BY <1>1, <3>1 DEF Claims
  <2>2. ASSUME NEW pc \in Pcs \ {"create", "capture", "release", "reserve_answer"}, Go(r, o, pc)
        PROVE  \A p \in Orders : Claims(r, p)' => Claims(r, p)
    <3>1. task'[r].pc = pc BY <2>2, Moves DEF Basics
    <3>2. QED BY <1>1, <2>2, <3>1 DEF Claims
  <2>3. CASE Go(r, o, "create") /\ At(r, "reserve_answer", o) /\ txn[r] = NoTxn
    <3>1. /\ task'[r].order = o /\ task'[r].pc = "create"
          /\ task[r].order = o /\ task[r].pc = "reserve_answer"
      BY <2>3, Moves DEF Basics, Pcs, At
    <3>2. QED BY <1>1, <2>3, <3>1 DEF Claims
  <2>4. QED BY <1>2, <2>1, <2>2, <2>3
<1>5. Backed' \subseteq Backed BY <1>1, <1>3, <1>4, BackedStep
<1>6. QED BY <1>1, <1>5, StillCovers

(* Nor does a handler that ends.                                             *)
LEMMA DieHold ==
  ASSUME Basics, HoldCovers, NEW r \in Requests, Die(r) PROVE HoldCovers'
<1>1. UNCHANGED <<status, raced, txn, money, lost>> /\ Return(r)
  BY DEF Die, rowVars, moneyVars
<1>2. task'[r].pc = "idle" /\ OthersStay(r)
  BY <1>1 DEF Basics, BookType, Return, OthersStay
<1>3. \A p \in Orders : Claims(r, p)' => Claims(r, p) BY <1>1, <1>2 DEF Claims
<1>4. Backed' \subseteq Backed
  <2>1. CASE Orders = {} BY <2>1 DEF Backed
  <2>2. CASE Orders # {} BY <1>1, <1>2, <1>3, <2>2, BackedStep
  <2>3. QED BY <2>1, <2>2
<1>5. QED BY <1>1, <1>4, StillCovers

(* A row update turns a claim into a pending order, or a pending order into  *)
(* a claim.                                                                  *)
LEMMA RowHold ==
  ASSUME Basics, Settling, HoldCovers, NEW r \in Requests, NEW o \in Orders, RowStep(r, o)
  PROVE  HoldCovers'
<1>1. /\ UNCHANGED <<money, lost, txn>>
      /\ \E new \in Statuses \ {"NONE"} : SetStatus(r, o, new)
      /\ \E pc \in Pcs : Go(r, o, pc)
      /\ \E from \in {"create", "mark_placed", "mark_failed", "mark_delivered"} : At(r, from, o)
  BY DEF RowStep, CreateOrder, MarkPlaced, MarkFailed, MarkDelivered, Statuses, moneyVars, Pcs
<1>2. /\ \A p \in Orders : p # o => status'[p] = status[p]
      /\ raced \subseteq raced'
  BY <1>1, StatusSet DEF Basics
<1>3. OthersStay(r) BY <1>1, Moves DEF OthersStay, Basics
<1>4. task'[r].order = o BY <1>1, Moves DEF Basics
<1>5. txn[r] = NoTxn /\ txn'[r] = NoTxn BY <1>1, NoneOpen DEF Pcs
<1>6. \A p \in Orders : p # o => ~Claims(r, p)'
  BY <1>4, <1>5, TxnUnopened, OrderConstants DEF Claims
<1>7. Backed' \subseteq Backed \union {o} BY <1>2, <1>3, <1>6, BackedStep
<1>8. ASSUME raced = {}, CreateOrder(r, o) \/ MarkPlaced(r, o) \/ MarkFailed(r, o)
      PROVE  o \in Backed
  <2>1. CASE CreateOrder(r, o) BY <2>1 DEF CreateOrder, At, Backed, Claims
  <2>2. CASE MarkPlaced(r, o) \/ MarkFailed(r, o)
    <3>1. task[r].pc \in DuringPlacing /\ task[r].order = o
      BY <2>2 DEF MarkPlaced, MarkFailed, At, DuringPlacing
    <3>2. status[o] = "PENDING_CONFIRMATION"
      BY <1>8, <3>1 DEF Settling, OrderOK, RequestOK
    <3>3. QED BY <3>2 DEF Backed
  <2>3. QED BY <1>8, <2>1, <2>2
<1>9. ASSUME MarkDelivered(r, o) PROVE Backed' \subseteq Backed
  <2>1. Go(r, o, "publish_delivered") /\ SetStatus(r, o, "DELIVERED")
    BY <1>9 DEF MarkDelivered
  <2>2. task'[r].pc = "publish_delivered" BY <2>1, Moves DEF Basics, Pcs
  <2>3. status'[o] = "DELIVERED" BY <2>1, StatusSet DEF Basics, Statuses
  <2>4. ~Claims(r, o)' BY <1>5, <2>2, TxnUnopened, OrderConstants DEF Claims
  <2>5. QED BY <1>2, <1>3, <1>6, <2>3, <2>4, BackedStep
<1>10. raced = {} => Backed' \subseteq Backed BY <1>7, <1>8, <1>9 DEF RowStep
<1>11. QED BY <1>1, <1>2, <1>10, StillCovers

(* A call of escrow opens a transaction; until it commits there is no new    *)
(* claim.                                                                    *)
LEMMA CallHold ==
  ASSUME Basics, HoldCovers, NEW r \in Requests, NEW o \in Orders,
         ReserveHold(r, o) \/ Capture(r, o) \/ Release(r, o)
  PROVE  HoldCovers'
<1>1. UNCHANGED <<status, money, lost, raced>>
  BY DEF ReserveHold, Capture, Release, Settle, rowVars
<1>2. ASSUME NEW op \in {"reserve", "capture", "release"}, At(r, op, o),
             NEW pc \in Pcs \ {"create", "capture", "release"}, Go(r, o, pc),
             pc = "reserve_answer" => op = "reserve" /\ OpenTxn(r, o, op),
             OpenTxn(r, o, op) \/ UNCHANGED txn
      PROVE  HoldCovers'
  <2>1. task[r].pc = op /\ task[r].order = o BY <1>2 DEF At
  <2>2. /\ task'[r].pc = pc /\ task'[r].order = o
        /\ \A q \in Requests : q # r => task'[q] = task[q]
    BY <1>2, Moves DEF Basics
  <2>3. /\ \A q \in Requests : q # r => txn'[q] = txn[q]
        /\ UNCHANGED txn \/ (txn'[r].op = op /\ txn'[r].order = o)
        /\ OpenTxn(r, o, op) => txn'[r] # NoTxn
    BY <1>2, Opens DEF Basics
  <2>4. OthersStay(r) BY <2>2, <2>3 DEF OthersStay
  <2>5. \A p \in Orders : Claims(r, p)' => Claims(r, p)
    BY <1>2, <2>1, <2>2, <2>3 DEF Claims
  <2>6. Backed' \subseteq Backed BY <1>1, <2>4, <2>5, BackedStep
  <2>7. QED BY <1>1, <2>6, StillCovers
<1>3. ASSUME Return(r), UNCHANGED txn PROVE HoldCovers'
  <2>1. task'[r].pc = "idle" /\ OthersStay(r) BY <1>3, Moves DEF Basics, OthersStay
  <2>2. \A p \in Orders : Claims(r, p)' => Claims(r, p) BY <1>3, <2>1 DEF Claims
  <2>3. Backed' \subseteq Backed BY <1>1, <2>1, <2>2, BackedStep
  <2>4. QED BY <1>1, <2>3, StillCovers
<1>4. CASE ReserveHold(r, o) BY <1>2, <1>3, <1>4 DEF ReserveHold, Pcs
<1>5. CASE Capture(r, o) BY <1>2, <1>5 DEF Capture, Settle, Pcs
<1>6. CASE Release(r, o) BY <1>2, <1>6 DEF Release, Settle, Pcs
<1>7. QED BY <1>4, <1>5, <1>6

(* A commit: the hold grows with the claim, and shrinks only with it, unless *)
(* it was written over.                                                      *)
LEMMA CommitHold ==
  ASSUME Basics, Settling, HoldCovers, NEW r \in Requests, CommitTxn(r)
  PROVE  HoldCovers'
<1>1. PICK o \in Orders : o = txn[r].order BY Commits DEF Basics
<1>2. /\ txn[r].op \in {"reserve", "capture", "release"} /\ Cost[o] \in Nat
      /\ task[r].pc \in Awaits(txn[r].op) /\ task[r].order \in {o, NoOrder}
      /\ txn'[r] = NoTxn /\ \A q \in Requests : q # r => txn'[q] = txn[q]
      /\ money'.reservedAmount = IF txn[r].op = "reserve"
                                 THEN txn[r].read.reservedAmount + Cost[o]
                                 ELSE txn[r].read.reservedAmount - Cost[o]
      /\ lost' = (lost \/ txn[r].read.reservedAmount # money.reservedAmount)
  BY <1>1, Commits DEF Basics
<1>3. UNCHANGED <<status, raced, task>> BY DEF CommitTxn, rowVars
<1>4. OthersStay(r) BY <1>2, <1>3 DEF OthersStay
<1>5. task[r].pc \notin {"create", "capture", "release"} BY <1>2 DEF Awaits
<1>6. \A p \in Orders : p # o => ~Claims(r, p)'
  BY <1>2, <1>3, <1>5, TxnUnopened, OrderConstants DEF Claims
<1>7. Backed \in SUBSET Orders /\ Backed' \in SUBSET Orders BY DEF Backed
<1>8. money.reservedAmount \in Nat BY DEF Basics, BookType, Wallets
<1>9. CASE lost' \/ raced # {} BY <1>3, <1>9 DEF HoldCovers
<1>10. CASE ~lost' /\ raced = {}
  <2>1. txn[r].read.reservedAmount = money.reservedAmount BY <1>2, <1>10
  <2>2. money.reservedAmount >= CostOf(Backed) BY <1>2, <1>10 DEF HoldCovers
  <2>3. CASE txn[r].op = "reserve"
    <3>1. Backed' \subseteq Backed \union {o} BY <1>3, <1>4, <1>6, BackedStep
    <3>2. money.reservedAmount + Cost[o] >= CostOf(Backed')
      BY <1>7, <1>8, <2>2, <3>1, Covers
    <3>3. QED BY <1>2, <2>1, <2>3, <3>2, Covered
  <2>4. CASE txn[r].op \in {"capture", "release"}
    <3>1. Claims(r, o) /\ SettlementDue(r, o)
      BY <1>1, <2>4 DEF Claims, SettlementDue
    <3>2. o \in Backed BY <3>1 DEF Backed
    <3>3. /\ status[o] \notin {"NONE", "PENDING_CONFIRMATION"}
          /\ \A q \in Requests : SettlementDue(q, o) => q = r
          /\ \A q \in Requests : task[q].order = o => RequestOK(task[q].pc, status[o], ref[o])
      BY <1>10, <3>1 DEF Settling, OrderOK
    <3>4. ASSUME NEW q \in Requests, q # r PROVE ~Claims(q, o)
      BY <3>3, <3>4, DueAt DEF Claims, RequestOK
    <3>5. ~Claims(r, o)'
      <4>1. task[r].pc # "reserve_answer" BY <1>2, <2>4 DEF Awaits
      <4>2. QED BY <1>2, <1>3, <1>5, <4>1, TxnUnopened, OrderConstants DEF Claims
    <3>6. Backed' \subseteq Backed \ {o}
      BY <1>3, <1>4, <1>6, <3>3, <3>4, <3>5, BackedStep
    <3>7. money.reservedAmount - Cost[o] >= CostOf(Backed')
      BY <1>7, <1>8, <2>2, <3>2, <3>6, Covers
    <3>8. QED BY <1>2, <2>1, <2>4, <3>7, Covered
  <2>5. QED BY <1>2, <2>3, <2>4
<1>11. QED BY <1>9, <1>10

(* A transaction that is rolled back takes its claim along.                  *)
LEMMA AbortHold ==
  ASSUME Basics, HoldCovers, NEW r \in Requests, AbortTxn(r) PROVE HoldCovers'
<1>1. /\ UNCHANGED <<status, raced, money, lost>> /\ txn' = [txn EXCEPT ![r] = NoTxn]
      /\ \/ UNCHANGED task /\ task[r].pc # "reserve_answer"
         \/ Return(r)
  BY DEF AbortTxn, rowVars
<1>2. txn'[r] = NoTxn /\ \A q \in Requests : q # r => txn'[q] = txn[q]
  BY <1>1 DEF Basics, BookType
<1>3. /\ \A q \in Requests : q # r => task'[q] = task[q]
      /\ \/ task'[r] = task[r] /\ task[r].pc # "reserve_answer"
         \/ task'[r].pc = "idle" /\ task'[r].order = NoOrder
  BY <1>1 DEF Basics, BookType, Return
<1>4. OthersStay(r) BY <1>2, <1>3 DEF OthersStay
<1>5. \A p \in Orders : Claims(r, p)' => Claims(r, p)
  BY <1>2, <1>3, TxnUnopened, OrderConstants DEF Claims
<1>6. Backed' \subseteq Backed
  <2>1. CASE Orders = {} BY <2>1 DEF Backed
  <2>2. CASE Orders # {} BY <1>1, <1>4, <1>5, <2>2, BackedStep
  <2>3. QED BY <2>1, <2>2
<1>7. QED BY <1>1, <1>6, StillCovers

(* One step keeps the invariant.                                             *)
LEMMA HoldStep == Basics /\ Settling /\ HoldCovers /\ [Next]_orderVars => HoldCovers'
<1> SUFFICES ASSUME Basics, Settling, HoldCovers, [Next]_orderVars PROVE HoldCovers' OBVIOUS
<1>1. CASE UNCHANGED orderVars
  <2>1. Backed' \subseteq Backed BY <1>1 DEF orderVars, Backed, Claims
  <2>2. QED BY <1>1, <2>1, StillCovers DEF orderVars
<1>2. CASE ~UNCHANGED orderVars
  BY <1>2, Kinds, QuietHold, DieHold, RowHold, CallHold, CommitHold, AbortHold
<1>3. QED BY <1>1, <1>2

(* At the start nothing is held for anyone.                                  *)
LEMMA HoldInit == Init => HoldCovers
<1> SUFFICES ASSUME Init PROVE HoldCovers OBVIOUS
<1>1. Backed = {}
  BY TxnUnopened, OrderConstants DEF Init, Backed, Claims
<1>2. money.reservedAmount = 0 BY DEF Init, Balance
<1>3. QED BY <1>1, <1>2, CostEmpty DEF HoldCovers

(* The orders HoldBacksPending names are among those backed.                 *)
LEMMA HoldImplied == Basics /\ HoldCovers => HoldBacksPending
<1> SUFFICES ASSUME Basics, HoldCovers PROVE HoldBacksPending OBVIOUS
<1> DEFINE open == {o \in Orders : ConfirmAllowed(o) \/ \E r \in Requests : SettlementDue(r, o)}
<1>1. open \subseteq Backed /\ Backed \in SUBSET Orders
  BY DueAt DEF ConfirmAllowed, Backed, Claims
<1>2. CostOf(open) <= CostOf(Backed) /\ CostOf(open) \in Nat /\ CostOf(Backed) \in Nat
  BY <1>1, CostGrows, CostNat
<1>3. money.reservedAmount \in Nat BY DEF Basics, BookType, Wallets
<1> HIDE DEF open
<1>4. lost \/ raced # {} \/ money.reservedAmount >= CostOf(open)
  BY <1>2, <1>3 DEF HoldCovers
<1>5. QED BY <1>4 DEF HoldBacksPending, CostOf, open

(* The wallet holds the money of every order that can still be confirmed or  *)
(* whose settlement is still to be asked for or in progress, whatever dies,  *)
(* times out or is served late, and however many orders there are -- until   *)
(* one update of the hold is written over another, or two requests change    *)
(* one order.                                                                *)
THEOREM PendingIsBacked == Spec => []HoldBacksPending
<1> DEFINE Inv == Basics /\ Settling /\ HoldCovers
<1>1. Inv /\ [Next]_orderVars => Inv' BY BasicsStep, SettlingStep, HoldStep
<1>2. Inv => HoldBacksPending BY HoldImplied
<1>3. Init => Inv BY TypesInit, SettlingInit, HoldInit
<1>4. QED BY <1>1, <1>2, <1>3, PTL DEF Spec

-----------------------------------------------------------------------------
(* Charging. The requests that Swiggy has answered and whose capture is not  *)
(* served yet, or may still be.                                              *)
Charging(r, o) == \/ task[r].order = o /\ task[r].pc \in {"mark_placed", "capture"}
                  \/ txn[r].order = o /\ txn[r].op = "capture"

InFlight(o) == {r \in Requests : Charging(r, o)}

(* Each of them, and each capture made, has a Swiggy order of its own.       *)
Counted(o) ==
  IsFiniteSet(InFlight(o)) /\ captured[o] + Cardinality(InFlight(o)) <= placed[o]

(* The invariant. That captures do not outnumber placements is not inductive *)
(* by itself: a request about to capture must count as well.                 *)
Placements == \A o \in Orders : Counted(o)

(* It is kept for an order that no request is newly about to capture.        *)
LEMMA Fewer ==
  ASSUME BookType, BookType', SideType, SideType', NEW o \in Orders, Counted(o),
         InFlight(o)' \subseteq InFlight(o), captured'[o] = captured[o], placed'[o] >= placed[o]
  PROVE  Counted(o)'
<1>1. /\ IsFiniteSet(InFlight(o)') /\ Cardinality(InFlight(o)') <= Cardinality(InFlight(o))
      /\ Cardinality(InFlight(o)') \in Nat /\ Cardinality(InFlight(o)) \in Nat
  BY FS_Subset, FS_CardinalityType DEF Counted
<1>2. captured[o] \in Nat /\ placed[o] \in Nat /\ placed'[o] \in Nat
  BY DEF BookType, SideType
<1>3. QED BY <1>1, <1>2 DEF Counted

(* What one request does to the requests about to capture.                   *)
LEMMA FlightStep ==
  ASSUME NEW r \in Requests, OthersStay(r), NEW p \in Orders
  PROVE  /\ InFlight(p)' \subseteq InFlight(p) \union {r}
         /\ (Charging(r, p)' => Charging(r, p)) => InFlight(p)' \subseteq InFlight(p)
         /\ ~Charging(r, p)' => InFlight(p)' \subseteq InFlight(p) \ {r}
<1>1. \A q \in Requests : q # r => (Charging(q, p)' <=> Charging(q, p))
  BY DEF OthersStay, Charging
<1>2. QED BY <1>1 DEF InFlight

(* A step that captures nothing and after which no request is newly about to *)
(* capture.                                                                  *)
LEMMA NoCharge ==
  ASSUME Basics, Basics', SideType, SideType', Placements, NEW r \in Requests,
         OthersStay(r), UNCHANGED captured,
         \A p \in Orders : placed'[p] >= placed[p],
         \A p \in Orders : Charging(r, p)' => Charging(r, p)
  PROVE  Placements'
<1>1. ASSUME NEW p \in Orders PROVE InFlight(p)' \subseteq InFlight(p)
  BY FlightStep
<1>2. QED BY <1>1, Fewer DEF Placements, Basics

(* The ways in which r goes on without it.                                   *)
LEMMA GoesOn ==
  ASSUME Basics, NEW r \in Requests, NEW o \in Orders,
         OthersStay(r), \/ UNCHANGED txn
                        \/ txn'[r] = NoTxn
                        \/ txn'[r].op \in {"reserve", "release"}
                        \/ At(r, "capture", o) /\ txn'[r].order = o,
         \/ Return(r) \/ UNCHANGED task
         \/ \E pc \in Pcs : /\ Go(r, o, pc)
                            /\ pc = "mark_placed" => At(r, "mark_placed", o)
                            /\ pc = "capture" => At(r, "mark_placed", o)
  PROVE  \A p \in Orders : Charging(r, p)' => Charging(r, p)
<1>1. \/ task'[r].pc = "idle" \/ task'[r] = task[r]
      \/ task'[r].pc \notin {"mark_placed", "capture"}
      \/ task'[r].order = o /\ task[r].order = o /\ task[r].pc = "mark_placed"
  BY Moves DEF Basics, At
<1>2. NoTxn.op # "capture" BY TxnUnopened
<1>3. At(r, "capture", o) => task[r].order = o /\ task[r].pc = "capture" BY DEF At
<1>4. QED BY <1>1, <1>2, <1>3 DEF Charging

(* One step keeps the invariant.                                             *)
LEMMA PlacementsStep == Basics /\ SideType /\ Placements /\ [Next]_orderVars => Placements'
<1> SUFFICES ASSUME Basics, SideType, Placements, [Next]_orderVars PROVE Placements' OBVIOUS
<1>t. Basics' /\ SideType' BY BasicsStep, SideStep
<1>n. \A o \in Orders : /\ captured[o] \in Nat /\ captured'[o] \in Nat
                        /\ placed[o] \in Nat /\ placed'[o] \in Nat
  BY <1>t DEF Basics, BookType, SideType
<1>1. CASE UNCHANGED orderVars
  BY <1>1 DEF orderVars, Placements, Counted, InFlight, Charging
<1>2. ASSUME NEW r \in Requests, NEW o \in Orders,
             \/ Arrival(r, o) \/ ReserveAnswered(r, o) \/ UpdateFoodCart(r, o)
             \/ CheckFoodCart(r, o) \/ Reconcile(r, o)
             \/ Captured(r, o) \/ Released(r, o) \/ TrackFoodOrder(r, o)
             \/ (\E pc \in Pcs : Publish(r, o, pc)) \/ RowStep(r, o)
      PROVE  Placements'
  <2>1. /\ UNCHANGED <<captured, placed, txn>>
        /\ \/ Return(r)
           \/ \E pc \in Pcs : /\ Go(r, o, pc)
                              /\ pc # "mark_placed"
                              /\ pc = "capture" => At(r, "mark_placed", o)
    BY <1>2
    DEF Arrival, ExecuteOrder, Confirm, PollDelivery, ReserveAnswered, UpdateFoodCart,
        CheckFoodCart, Reconcile, Captured, Released, Settled, TrackFoodOrder, Publish,
        RowStep, CreateOrder, MarkPlaced, MarkFailed, MarkDelivered, moneyVars,
        swiggyVars, Pcs
  <2>2. OthersStay(r) BY <2>1, Moves DEF OthersStay, Basics
  <2>3. \A p \in Orders : Charging(r, p)' => Charging(r, p) BY <2>1, <2>2, GoesOn
  <2>4. \A p \in Orders : placed'[p] >= placed[p] BY <1>n, <2>1
  <2>5. QED BY <1>t, <2>1, <2>2, <2>3, <2>4, NoCharge
<1>3. ASSUME NEW r \in Requests, Die(r) PROVE Placements'
  <2>1. UNCHANGED <<captured, placed, txn>> /\ Return(r)
    BY <1>3 DEF Die, moneyVars, swiggyVars
  <2>2. task'[r].pc = "idle" /\ OthersStay(r)
    BY <2>1 DEF Basics, BookType, Return, OthersStay
  <2>3. \A p \in Orders : Charging(r, p)' => Charging(r, p) BY <2>1, <2>2 DEF Charging
  <2>4. \A p \in Orders : placed'[p] >= placed[p] BY <1>n, <2>1
  <2>5. QED BY <1>t, <2>1, <2>2, <2>3, <2>4, NoCharge
<1>4. ASSUME NEW r \in Requests, NEW o \in Orders,
             ReserveHold(r, o) \/ Capture(r, o) \/ Release(r, o)
      PROVE  Placements'
  <2>1. /\ UNCHANGED <<captured, placed>>
        /\ \/ Return(r) /\ UNCHANGED txn
           \/ \E op \in {"reserve", "capture", "release"},
                 pc \in {"reserve_answer", "capture_answer", "release_answer",
                         "publish_placed", "publish_failed"} :
                At(r, op, o) /\ Go(r, o, pc) /\ (OpenTxn(r, o, op) \/ UNCHANGED txn)
    BY <1>4 DEF ReserveHold, Capture, Release, Settle, swiggyVars
  <2>2. CASE Return(r) /\ UNCHANGED txn
    <3>1. OthersStay(r) BY <2>2, Moves DEF OthersStay, Basics
    <3>2. \A p \in Orders : Charging(r, p)' => Charging(r, p) BY <2>2, <3>1, GoesOn
    <3>3. \A p \in Orders : placed'[p] >= placed[p] BY <1>n, <2>1
    <3>4. QED BY <1>t, <2>1, <3>1, <3>2, <3>3, NoCharge
  <2>3. ASSUME NEW op \in {"reserve", "capture", "release"},
               NEW pc \in {"reserve_answer", "capture_answer", "release_answer",
                           "publish_placed", "publish_failed"},
               At(r, op, o), Go(r, o, pc), OpenTxn(r, o, op) \/ UNCHANGED txn
        PROVE  Placements'
    <3>1. /\ \A q \in Requests : q # r => txn'[q] = txn[q]
          /\ UNCHANGED txn \/ (txn'[r].op = op /\ txn'[r].order = o)
      BY <2>3, Opens DEF Basics
    <3>2. OthersStay(r) BY <2>3, <3>1, Moves DEF OthersStay, Basics, Pcs
    <3>3. /\ pc \in Pcs /\ pc # "mark_placed" /\ pc # "capture"
          /\ UNCHANGED txn \/ txn'[r].op \in {"reserve", "release"}
             \/ (At(r, "capture", o) /\ txn'[r].order = o)
      BY <2>3, <3>1 DEF Pcs
    <3>4. \A p \in Orders : Charging(r, p)' => Charging(r, p) BY <2>3, <3>2, <3>3, GoesOn
    <3>5. \A p \in Orders : placed'[p] >= placed[p] BY <1>n, <2>1
    <3>6. QED BY <1>t, <2>1, <3>2, <3>4, <3>5, NoCharge
  <2>4. QED BY <2>1, <2>2, <2>3
<1>5. ASSUME NEW r \in Requests, AbortTxn(r) PROVE Placements'
  <2>1. /\ UNCHANGED <<captured, placed>> /\ txn' = [txn EXCEPT ![r] = NoTxn]
        /\ Return(r) \/ UNCHANGED task
    BY <1>5 DEF AbortTxn, swiggyVars
  <2>2. txn'[r] = NoTxn /\ \A q \in Requests : q # r => txn'[q] = txn[q]
    BY <2>1 DEF Basics, BookType
  <2>3. /\ \A q \in Requests : q # r => task'[q] = task[q]
        /\ task'[r] = task[r] \/ task'[r].pc = "idle"
    BY <2>1 DEF Basics, BookType, Return
  <2>4. OthersStay(r) BY <2>2, <2>3 DEF OthersStay
  <2>5. \A p \in Orders : Charging(r, p)' => Charging(r, p)
    BY <2>2, <2>3, TxnUnopened DEF Charging
  <2>6. \A p \in Orders : placed'[p] >= placed[p] BY <1>n, <2>1
  <2>7. QED BY <1>t, <2>1, <2>4, <2>5, <2>6, NoCharge
<1>6. ASSUME NEW r \in Requests, NEW o \in Orders, PlaceFoodOrder(r, o) PROVE Placements'
  <2>1. UNCHANGED <<captured, txn>> BY <1>6 DEF PlaceFoodOrder, moneyVars
  <2>2. Buy(o) => /\ placed'[o] = placed[o] + 1
                  /\ \A p \in Orders : p # o => placed'[p] = placed[p]
    BY DEF Buy, SideType
  <2>3. UNCHANGED swiggyVars \/ Buy(o) BY <1>6 DEF PlaceFoodOrder
  <2>4. \A p \in Orders : placed'[p] >= placed[p] BY <1>n, <2>2, <2>3 DEF swiggyVars
  <2>5. \E pc \in {"mark_failed", "reconcile", "mark_placed"} : Go(r, o, pc)
    BY <1>6 DEF PlaceFoodOrder
  <2>6. OthersStay(r) BY <2>1, <2>5, Moves DEF OthersStay, Basics, Pcs
  <2>7. CASE \E pc \in {"mark_failed", "reconcile"} : Go(r, o, pc)
    <3>1. \A p \in Orders : Charging(r, p)' => Charging(r, p)
      BY <2>1, <2>6, <2>7, GoesOn DEF Pcs
    <3>2. QED BY <1>t, <2>1, <2>4, <2>6, <3>1, NoCharge
  <2>8. CASE Buy(o) /\ Go(r, o, "mark_placed")
    <3>1. ASSUME NEW p \in Orders, p # o PROVE Counted(p)'
      <4>1. task'[r].order = o BY <2>8, Moves DEF Basics, Pcs
      <4>2. Charging(r, p)' => Charging(r, p) BY <2>1, <3>1, <4>1 DEF Charging
      <4>3. InFlight(p)' \subseteq InFlight(p) BY <2>6, <4>2, FlightStep
      <4>4. QED BY <1>t, <2>1, <2>4, <4>3, Fewer DEF Placements, Basics
    <3>2. Counted(o)'
      <4> DEFINE S == InFlight(o) \union {r}
      <4>1. InFlight(o)' \subseteq S BY <2>6, FlightStep
      <4>2. /\ IsFiniteSet(S) /\ Cardinality(S) <= Cardinality(InFlight(o)) + 1
            /\ Cardinality(S) \in Nat /\ Cardinality(InFlight(o)) \in Nat
            /\ captured[o] + Cardinality(InFlight(o)) <= placed[o]
        <5>1. IsFiniteSet(InFlight(o)) BY DEF Placements, Counted
        <5>2. IsFiniteSet(S) /\ Cardinality(S) \in {Cardinality(InFlight(o)), Cardinality(InFlight(o)) + 1}
          BY <5>1, FS_AddElement
        <5>3. Cardinality(S) \in Nat /\ Cardinality(InFlight(o)) \in Nat
          BY <5>1, <5>2, FS_CardinalityType
        <5> HIDE DEF S
        <5>4. QED BY <5>2, <5>3 DEF Placements, Counted
      <4> HIDE DEF S
      <4>3. /\ IsFiniteSet(InFlight(o)') /\ Cardinality(InFlight(o)') <= Cardinality(S)
            /\ Cardinality(InFlight(o)') \in Nat
        BY <4>1, <4>2, FS_Subset, FS_CardinalityType
      <4>4. captured'[o] + Cardinality(InFlight(o)') <= placed'[o]
        BY <1>n, <2>1, <2>2, <2>8, <4>2, <4>3
      <4>5. QED BY <4>3, <4>4 DEF Counted
    <3>3. QED BY <3>1, <3>2 DEF Placements
  <2>9. QED BY <1>6, <2>7, <2>8 DEF PlaceFoodOrder
<1>7. ASSUME NEW r \in Requests, CommitTxn(r) PROVE Placements'
  <2>1. PICK o \in Orders : o = txn[r].order BY <1>7, Commits DEF Basics
  <2>2. /\ txn[r].op \in {"reserve", "capture", "release"}
        /\ task[r].pc \in Awaits(txn[r].op)
        /\ txn'[r] = NoTxn /\ \A q \in Requests : q # r => txn'[q] = txn[q]
    BY <1>7, Commits DEF Basics
  <2>3. UNCHANGED <<task, placed>> BY <1>7 DEF CommitTxn, swiggyVars
  <2>4. OthersStay(r) BY <2>2, <2>3 DEF OthersStay
  <2>5. task[r].pc \notin {"mark_placed", "capture"} BY <2>2 DEF Awaits
  <2>6. \A p \in Orders : ~Charging(r, p)'
    BY <2>2, <2>3, <2>5, TxnUnopened DEF Charging
  <2>7. /\ \A p \in Orders : p # o \/ txn[r].op # "capture" => captured'[p] = captured[p]
        /\ captured'[o] <= captured[o] + 1
    <3>1. captured' = captured \/ (txn[r].op = "capture" /\ captured' = [captured EXCEPT ![o] = @ + 1])
      BY <1>7, <2>1 DEF CommitTxn, Basics, BookType
    <3>2. QED BY <1>n, <3>1 DEF Basics, BookType
  <2>8. ASSUME NEW p \in Orders PROVE Counted(p)'
    <3>1. InFlight(p)' \subseteq InFlight(p) \ {r} BY <2>4, <2>6, FlightStep
    <3>2. CASE p # o \/ txn[r].op # "capture"
      <4>1. captured'[p] = captured[p] /\ placed'[p] >= placed[p]
        BY <1>n, <2>3, <2>7, <3>2
      <4>2. QED BY <1>t, <3>1, <4>1, Fewer DEF Placements, Basics
    <3>3. CASE p = o /\ txn[r].op = "capture"
      <4> DEFINE S == InFlight(p) \ {r}
      <4>1. r \in InFlight(p) BY <2>1, <3>3 DEF InFlight, Charging
      <4>2. /\ IsFiniteSet(InFlight(p)) /\ captured[p] + Cardinality(InFlight(p)) <= placed[p]
        BY DEF Placements, Counted
      <4>3. IsFiniteSet(S) /\ Cardinality(S) = Cardinality(InFlight(p)) - 1
        BY <4>1, <4>2, FS_RemoveElement
      <4>4. /\ IsFiniteSet(InFlight(p)') /\ Cardinality(InFlight(p)') <= Cardinality(S)
            /\ Cardinality(InFlight(p)') \in Nat /\ Cardinality(InFlight(p)) \in Nat
        BY <3>1, <4>2, <4>3, FS_Subset, FS_CardinalityType
      <4> HIDE DEF S
      <4>5. captured'[p] <= captured[p] + 1 BY <2>7, <3>3
      <4>6. placed'[p] = placed[p] BY <2>3
      <4>7. captured'[p] + Cardinality(InFlight(p)') <= placed'[p]
        BY <1>n, <4>2, <4>3, <4>4, <4>5, <4>6
      <4>8. QED BY <4>4, <4>7 DEF Counted
    <3>4. QED BY <3>2, <3>3
  <2>9. QED BY <2>8 DEF Placements
<1>8. QED BY <1>1, <1>2, <1>3, <1>4, <1>5, <1>6, <1>7, Kinds

(* At the start there are no requests, and no captures.                      *)
LEMMA PlacementsInit == Init => Placements
<1> SUFFICES ASSUME Init, NEW o \in Orders PROVE Counted(o) BY DEF Placements
<1>1. InFlight(o) = {} BY TxnUnopened DEF Init, InFlight, Charging
<1>2. captured[o] = 0 /\ placed[o] = 0 BY DEF Init
<1>3. QED BY <1>1, <1>2, FS_EmptySet DEF Counted

(* The captures of an order do not outnumber its placements.                 *)
LEMMA PlacementsImply == BookType /\ SideType /\ Placements => ChargedOnlyIfPlaced
<1> SUFFICES ASSUME BookType, SideType, Placements, NEW o \in Orders
             PROVE  captured[o] <= placed[o]
  BY DEF ChargedOnlyIfPlaced
<1>1. IsFiniteSet(InFlight(o)) /\ captured[o] + Cardinality(InFlight(o)) <= placed[o]
  BY DEF Placements, Counted
<1>2. Cardinality(InFlight(o)) \in Nat BY <1>1, FS_CardinalityType
<1>3. captured[o] \in Nat /\ placed[o] \in Nat BY DEF BookType, SideType
<1>4. QED BY <1>1, <1>2, <1>3

(* A hold is captured for an order no more often than Swiggy has taken that  *)
(* order, even when confirmations of it overlap: an ambiguous failure of     *)
(* place_food_order is never charged.                                        *)
THEOREM NeverChargedUnplaced == Spec => []ChargedOnlyIfPlaced
<1> DEFINE Inv == Basics /\ SideType /\ Placements
<1>1. Inv /\ [Next]_orderVars => Inv' BY BasicsStep, SideStep, PlacementsStep
<1>2. Init => Inv BY TypesInit, PlacementsInit
<1>3. Inv => ChargedOnlyIfPlaced BY PlacementsImply DEF Basics
<1>4. QED BY <1>1, <1>2, <1>3, PTL DEF Spec

-----------------------------------------------------------------------------
(* The composition with the bus. The types of the queue, and of the debits.  *)
BusType == /\ queue \subseteq Orders /\ batch \in [Replicas -> SUBSET Orders]
           /\ debiting \in [Replicas -> [order : Orders \union {NoOrder}, read : Wallets]]
           /\ debited \in [Orders -> Nat]

(* The debit of escrow-service's consumer, as order-execution sees it: it    *)
(* writes the balance of the wallet.                                         *)
ConsumerDebits(b) ==
  UNCHANGED notMoney /\ money' = [money EXCEPT !.currentBalance = b]

(* A step of the composition is a step of order-execution, or none, or a     *)
(* debit.                                                                    *)
LEMMA PaymentMoves ==
  ASSUME BusType, [PaymentNext]_paymentVars
  PROVE  [Next]_orderVars \/ \E b \in Int : ConsumerDebits(b)
<1>1. ASSUME NEW r \in Requests, NEW o \in Orders, PublishPlaced(r, o) PROVE Next
  BY <1>1 DEF Next, Step
<1>2. OrderStep => Next BY <1>1 DEF OrderStep
<1>3. ASSUME NEW c \in Replicas, NEW o \in Orders, DebitPlaced(c, o)
      PROVE  \E b \in Int : ConsumerDebits(b)
  <2>1. debiting[c].read \in Wallets /\ Cost[o] \in Nat BY OrderConstants DEF BusType
  <2>2. debiting[c].read.currentBalance \in Int BY <2>1 DEF Wallets
  <2>3. money' = [money EXCEPT !.currentBalance = debiting[c].read.currentBalance - Cost[o]]
    BY <1>3 DEF DebitPlaced, Escrow!Update, Escrow!Debited
  <2>4. PICK b \in Int : b = debiting[c].read.currentBalance - Cost[o] BY <2>1, <2>2
  <2>5. QED BY <1>3, <2>3, <2>4 DEF ConsumerDebits, DebitPlaced
<1>4. QED
  BY <1>2, <1>3
  DEF PaymentNext, BusStep, BeginDebit, DebitFails, ConsumerDies, paymentVars

(* A debit keeps the invariants of order-execution: none speaks of the       *)
(* balance.                                                                  *)
LEMMA DebitKeeps ==
  ASSUME NEW b \in Int, ConsumerDebits(b), Basics
  PROVE  /\ Basics'
         /\ SideType => SideType'
         /\ Settling => Settling'
         /\ HoldCovers => HoldCovers'
         /\ Placements => Placements'
<1> USE DEF ConsumerDebits, notMoney
<1>1. money' \in Wallets /\ money'.reservedAmount = money.reservedAmount
  BY DEF Basics, BookType, Wallets
<1>2. BookType' BY <1>1 DEF Basics, BookType
<1>3. Owns' /\ RowExists' BY DEF Basics, Owns, RowExists
<1>4. SideType => SideType' BY DEF SideType
<1>5. Settling => Settling'
  <2>1. \A o \in Orders : (\A r \in Requests : SettlementDue(r, o)' <=> SettlementDue(r, o))
                          /\ (Unsettled(o)' <=> Unsettled(o))
    BY DEF Unsettled, SettlementDue, At
  <2>2. \A o \in Orders : OrderOK(o) => OrderOK(o)' BY <2>1 DEF OrderOK
  <2>3. QED BY <2>2 DEF Settling
<1>6. HoldCovers => HoldCovers'
  <2>1. Backed' \subseteq Backed BY DEF Backed, Claims
  <2>2. QED BY <1>1, <2>1, StillCovers
<1>7. Placements => Placements' BY DEF Placements, Counted, InFlight, Charging
<1>8. QED BY <1>2, <1>3, <1>4, <1>5, <1>6, <1>7 DEF Basics

(* A request that will publish OrderPlaced, unless it fails.                 *)
Announces(r, o) ==
  task[r].order = o /\ task[r].pc \in {"mark_placed", "capture", "capture_answer", "publish_placed"}

(* The ways in which an order is on its way to a debit.                      *)
Announced(o) ==
  \/ \E r \in Requests : Announces(r, o)
  \/ o \in queue \/ \E c \in Replicas : o \in batch[c]
  \/ debited[o] > 0

(* The invariant: an order on its way to a debit has been placed.            *)
PlacedFirst == \A o \in Orders : Announced(o) => placed[o] > 0

(* Those of them that are on the bus, or past it.                            *)
Carried(o) == o \in queue \/ (\E c \in Replicas : o \in batch[c]) \/ debited[o] > 0

(* The bus brings to a debit only what was published, late or again.         *)
LEMMA BusMoves ==
  ASSUME Basics, BusType, [PaymentNext]_paymentVars
  PROVE  BusType' /\ \A o \in Orders : Carried(o)' => Announced(o)
<1> USE DEF BusType
<1>d. NoDebit \in [order : Orders \union {NoOrder}, read : Wallets]
  BY DEF NoDebit, Balance, Wallets
<1>1. CASE UNCHANGED busVars /\ UNCHANGED debitVars
  BY <1>1 DEF busVars, debitVars, Announced, Carried
<1>2. ASSUME NEW r \in Requests, NEW o \in Orders, PublishPlaced(r, o), Bus!Deliver(o),
             UNCHANGED debitVars
      PROVE  BusType' /\ \A p \in Orders : Carried(p)' => Announced(p)
  <2>1. Announces(r, o) BY <1>2 DEF PublishPlaced, Publish, At, Announces
  <2>2. QED BY <1>2, <2>1 DEF Bus!Deliver, Announced, Carried, debitVars
<1>3. ASSUME NEW c \in Replicas, NEW S \in SUBSET Orders, Bus!Receive(c, S),
             UNCHANGED debitVars
      PROVE  BusType' /\ \A p \in Orders : Carried(p)' => Announced(p)
  BY <1>3 DEF Bus!Receive, Announced, Carried, debitVars
<1>4. ASSUME NEW c \in Replicas, Bus!Delete(c) \/ Bus!DeleteFails(c), UNCHANGED debitVars
      PROVE  BusType' /\ \A p \in Orders : Carried(p)' => Announced(p)
  BY <1>4 DEF Bus!Delete, Bus!DeleteFails, Announced, Carried, debitVars
<1>5. ASSUME NEW o \in Orders, Bus!Reappear(o), UNCHANGED debitVars
      PROVE  BusType' /\ \A p \in Orders : Carried(p)' => Announced(p)
  BY <1>5 DEF Bus!Reappear, Announced, Carried, debitVars
<1>6. ASSUME NEW c \in Replicas, ConsumerDies(c)
      PROVE  BusType' /\ \A p \in Orders : Carried(p)' => Announced(p)
  BY <1>6, <1>d DEF ConsumerDies, Bus!Crash, Announced, Carried
<1>7. ASSUME NEW c \in Replicas, NEW o \in Orders, BeginDebit(c, o)
      PROVE  BusType' /\ \A p \in Orders : Carried(p)' => Announced(p)
  <2>1. PICK x : x = [order |-> o, read |-> money] OBVIOUS
  <2>2. x \in [order : Orders \union {NoOrder}, read : Wallets]
    BY <2>1 DEF Basics, BookType
  <2>3. debiting' = [debiting EXCEPT ![c] = x] BY <1>7, <2>1 DEF BeginDebit
  <2>4. QED BY <1>7, <2>2, <2>3 DEF BeginDebit, busVars, Announced, Carried
<1>8. ASSUME NEW c \in Replicas, NEW o \in Orders, DebitPlaced(c, o) \/ DebitFails(c, o)
      PROVE  BusType' /\ \A p \in Orders : Carried(p)' => Announced(p)
  BY <1>8, <1>d DEF DebitPlaced, DebitFails, Bus!HandleOk, Bus!LeaveInQueue, Announced, Carried
<1>9. QED
  BY <1>1, <1>2, <1>3, <1>4, <1>5, <1>6, <1>7, <1>8
  DEF PaymentNext, OrderStep, BusStep, paymentVars

(* Everything that is used of the composition.                               *)
PaymentBasics == Basics /\ SideType /\ BusType

(* It is kept by a step.                                                     *)
LEMMA PaymentBasicsStep == PaymentBasics /\ [PaymentNext]_paymentVars => PaymentBasics'
BY PaymentMoves, DebitKeeps, BasicsStep, SideStep, BusMoves DEF PaymentBasics

(* It holds at the start.                                                    *)
LEMMA PaymentBasicsInit == PaymentInit => PaymentBasics
<1> SUFFICES ASSUME PaymentInit PROVE PaymentBasics OBVIOUS
<1>1. Basics /\ SideType BY TypesInit DEF PaymentInit
<1>2. NoDebit \in [order : Orders \union {NoOrder}, read : Wallets]
  BY DEF NoDebit, Balance, Wallets
<1>3. BusType BY <1>2 DEF PaymentInit, BusType, Bus!Init
<1>4. QED BY <1>1, <1>3 DEF PaymentBasics

(* Type correctness of order-execution next to the consumer of OrderPlaced.  *)
THEOREM PaymentTypes == PaymentSpec => []TypeOK
<1>1. PaymentBasics => TypeOK BY TypesImply DEF PaymentBasics
<1>2. QED BY <1>1, PaymentBasicsStep, PaymentBasicsInit, PTL DEF PaymentSpec

(* Next to the consumer too, captures do not outnumber placements, however   *)
(* events are lost or repeated and requests overlap.                         *)
THEOREM PaymentChargesPlaced == PaymentSpec => []ChargedOnlyIfPlaced
<1> DEFINE Inv == PaymentBasics /\ Placements
<1>1. Inv /\ [PaymentNext]_paymentVars => Inv'
  BY PaymentBasicsStep, PaymentMoves, DebitKeeps, PlacementsStep DEF PaymentBasics
<1>2. PaymentInit => Inv BY PaymentBasicsInit, PlacementsInit DEF PaymentInit
<1>3. Inv => ChargedOnlyIfPlaced BY PlacementsImply DEF PaymentBasics, Basics
<1>4. QED BY <1>1, <1>2, <1>3, PTL DEF PaymentSpec

(* The debits of the consumer, from whatever row they were computed, disturb *)
(* no hold: each is settled at most once, and the wallet still holds what    *)
(* the pending orders need, with the two exceptions of SettledOnce and       *)
(* PendingIsBacked.                                                          *)
THEOREM PaymentKeepsHolds == PaymentSpec => [](SettledAtMostOnce /\ HoldBacksPending)
<1> DEFINE Inv == PaymentBasics /\ Settling /\ HoldCovers
<1>1. Inv /\ [PaymentNext]_paymentVars => Inv'
  BY PaymentBasicsStep, PaymentMoves, DebitKeeps, SettlingStep, HoldStep DEF PaymentBasics
<1>2. Inv => SettledAtMostOnce /\ HoldBacksPending
  BY HoldImplied DEF PaymentBasics, Settling, OrderOK, SettledAtMostOnce
<1>3. PaymentInit => Inv BY PaymentBasicsInit, SettlingInit, HoldInit DEF PaymentInit
<1>4. QED BY <1>1, <1>2, <1>3, PTL DEF PaymentSpec

(* A placement is not undone.                                                *)
LEMMA PlacedGrows ==
  ASSUME SideType, [Next]_orderVars
  PROVE  \A o \in Orders : placed[o] > 0 => placed'[o] > 0
<1>1. \A p \in Orders : placed[p] \in Nat BY DEF SideType
<1>2. \A o \in Orders : Buy(o) => \A p \in Orders : placed[p] > 0 => placed'[p] > 0
  BY <1>1 DEF Buy, SideType
<1>3. UNCHANGED placed \/ \E o \in Orders : Buy(o)
  BY SwiggyStep DEF swiggyVars, UpdateFoodCart, PlaceFoodOrder
<1>4. QED BY <1>2, <1>3

(* A request starts on that way only by a placement.                         *)
LEMMA AnnouncesStep ==
  ASSUME Basics, SideType, [Next]_orderVars
  PROVE  \A o \in Orders, r \in Requests :
           Announces(r, o)' => Announces(r, o) \/ placed'[o] > 0
<1>1. ASSUME NEW q \in Requests,
             \/ Return(q)
             \/ \E p \in Orders, pc \in Pcs :
                  /\ Go(q, p, pc)
                  /\ pc \in {"mark_placed", "capture", "capture_answer", "publish_placed"} =>
                       Announces(q, p)
      PROVE  \A o \in Orders, r \in Requests : Announces(r, o)' => Announces(r, o)
  <2>1. ASSUME NEW p \in Orders, NEW pc \in Pcs, Go(q, p, pc),
               pc \in {"mark_placed", "capture", "capture_answer", "publish_placed"} =>
                 Announces(q, p)
        PROVE  \A o \in Orders, r \in Requests : Announces(r, o)' => Announces(r, o)
    <3>1. /\ task'[q].pc = pc /\ task'[q].order = p
          /\ \A r \in Requests : r # q => task'[r] = task[r]
      BY <2>1, Moves DEF Basics
    <3>2. QED BY <2>1, <3>1 DEF Announces
  <2>2. ASSUME NEW p \in Orders, Return(q)
        PROVE  \A o \in Orders, r \in Requests : Announces(r, o)' => Announces(r, o)
    <3>1. /\ task'[q].pc = "idle" /\ \A r \in Requests : r # q => task'[r] = task[r]
      BY <2>2, Moves DEF Basics
    <3>2. QED BY <3>1 DEF Announces
  <2>3. QED BY <1>1, <2>1, <2>2
<1>2. ASSUME NEW q \in Requests, NEW p \in Orders,
             \/ Arrival(q, p) \/ ReserveAnswered(q, p) \/ UpdateFoodCart(q, p)
             \/ CheckFoodCart(q, p) \/ Reconcile(q, p) \/ Captured(q, p) \/ Released(q, p)
             \/ TrackFoodOrder(q, p) \/ (\E pc \in Pcs : Publish(q, p, pc)) \/ RowStep(q, p)
             \/ ReserveHold(q, p) \/ Capture(q, p) \/ Release(q, p)
      PROVE  \A o \in Orders, r \in Requests : Announces(r, o)' => Announces(r, o)
  <2>1. \/ Return(q)
        \/ \E pc \in Pcs :
             /\ Go(q, p, pc)
             /\ pc \in {"mark_placed", "capture", "capture_answer", "publish_placed"} =>
                  Announces(q, p)
    BY <1>2
    DEF Arrival, ExecuteOrder, Confirm, PollDelivery, ReserveAnswered, ReserveHold,
        UpdateFoodCart, CheckFoodCart, Reconcile, RowStep, CreateOrder, MarkPlaced,
        Capture, MarkFailed, Release, Settle, Captured, Released, Settled,
        TrackFoodOrder, MarkDelivered, Publish, Pcs, At, Announces
  <2>2. QED BY <1>1, <2>1
<1>3. ASSUME NEW q \in Requests, Die(q) \/ AbortTxn(q) \/ CommitTxn(q)
      PROVE  \A o \in Orders, r \in Requests : Announces(r, o)' => Announces(r, o)
  <2>1. Return(q) \/ UNCHANGED task BY <1>3 DEF Die, AbortTxn, CommitTxn
  <2>2. CASE Return(q) BY <1>1, <2>2
  <2>3. CASE UNCHANGED task BY <2>3 DEF Announces
  <2>4. QED BY <2>1, <2>2, <2>3
<1>4. ASSUME NEW q \in Requests, NEW p \in Orders, PlaceFoodOrder(q, p)
      PROVE  \A o \in Orders, r \in Requests :
               Announces(r, o)' => Announces(r, o) \/ placed'[o] > 0
  <2>1. CASE Buy(p) /\ Go(q, p, "mark_placed")
    <3>1. /\ task'[q].order = p /\ \A r \in Requests : r # q => task'[r] = task[r]
      BY <2>1, Moves DEF Pcs, Basics
    <3>2. placed'[p] > 0 BY <2>1 DEF Buy, SideType
    <3>3. QED BY <3>1, <3>2 DEF Announces
  <2>2. CASE \E pc \in {"mark_failed", "reconcile"} : Go(q, p, pc)
    BY <1>1, <2>2 DEF Pcs
  <2>3. QED BY <1>4, <2>1, <2>2 DEF PlaceFoodOrder
<1>5. CASE UNCHANGED orderVars BY <1>5 DEF orderVars, Announces
<1>6. QED BY <1>2, <1>3, <1>4, <1>5, Kinds

(* One step keeps the invariant.                                             *)
LEMMA PlacedFirstStep ==
  ASSUME PaymentBasics, PlacedFirst, [PaymentNext]_paymentVars
  PROVE  PlacedFirst'
<1> USE DEF PaymentBasics
<1>1. /\ \A o \in Orders : placed[o] > 0 => placed'[o] > 0
      /\ \A o \in Orders, r \in Requests :
           Announces(r, o)' => Announces(r, o) \/ placed'[o] > 0
  <2>1. CASE [Next]_orderVars BY <2>1, PlacedGrows, AnnouncesStep
  <2>2. CASE \E b \in Int : ConsumerDebits(b)
    BY <2>2 DEF ConsumerDebits, notMoney, Announces
  <2>3. QED BY <2>1, <2>2, PaymentMoves
<1>2. ASSUME NEW o \in Orders, Announced(o)' PROVE placed'[o] > 0
  <2>1. Carried(o)' \/ \E r \in Requests : Announces(r, o)' BY <1>2 DEF Announced, Carried
  <2>2. Announced(o) \/ placed'[o] > 0 BY <1>1, <2>1, BusMoves DEF Announced
  <2>3. QED BY <1>1, <2>2 DEF PlacedFirst
<1>3. QED BY <1>2 DEF PlacedFirst

(* The consumer of OrderPlaced never debits an order that Swiggy has not     *)
(* taken, for any number of consumers and however events are delayed,        *)
(* repeated or lost, and although confirmations of one order may overlap.    *)
THEOREM NeverDebitedUnplaced == PaymentSpec => []DebitedOnlyIfPlaced
<1> DEFINE Inv == PaymentBasics /\ PlacedFirst
<1>1. Inv /\ [PaymentNext]_paymentVars => Inv' BY PaymentBasicsStep, PlacedFirstStep
<1>2. PaymentInit => Inv
  <2> SUFFICES ASSUME PaymentInit PROVE Inv OBVIOUS
  <2>1. PaymentBasics BY PaymentBasicsInit
  <2>2. PlacedFirst
    BY DEF PaymentInit, PlacedFirst, Announced, Announces, Bus!Init, Init
  <2>3. QED BY <2>1, <2>2
<1>3. Inv => DebitedOnlyIfPlaced BY DEF PlacedFirst, Announced, DebitedOnlyIfPlaced
<1>4. QED BY <1>1, <1>2, <1>3, PTL DEF PaymentSpec
=============================================================================
