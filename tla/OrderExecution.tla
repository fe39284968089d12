--------------------------- MODULE OrderExecution ---------------------------
(***************************************************************************)
(* order-execution-service: the orders of one user, the requests being      *)
(* served (each a sequence of awaits, so that requests interleave at every  *)
(* await), the user's wallet at escrow-service, and the user's server-side  *)
(* cart and orders at Swiggy, reached through mcp-gateway-service.          *)
(*                                                                          *)
(* The wallet is Wallet's: a call of escrow opens a transaction there, which *)
(* reads the row, checks it, and later writes values computed from what it  *)
(* has read; the transactions of a user's orders interleave.  Of the row,   *)
(* the money columns are kept.  Deposits and the budget plan stay out.      *)
(* Swiggy is external; its answers are chosen among those the code handles. *)
(*                                                                          *)
(* Two history variables tell what has gone wrong between requests: raced,  *)
(* the orders whose status was changed under another request at work on     *)
(* them, and lost, whether an update of the hold was written over another.  *)
(* No step depends on them.                                                 *)
(***************************************************************************)
EXTENDS Integers, FiniteSets, FiniteSetsExt

CONSTANTS Orders,         \* order ids; an order is created at most once
          Requests,       \* requests served at the same time
          Cost,           \* finalTotal of each order's cart
          Deposited,      \* the wallet's balance at the start
          OrderLimit,     \* MAX_ORDER_TOTAL_PAISE
          Faults,         \* what goes wrong, see FaultKinds
          MaxPlacements,  \* bound: Swiggy orders explored per order
          NoOrder

FaultKinds == {"die",      \* a handler ends between two awaits
               "escrow",   \* an escrow call times out, served or not
               "swiggy"}   \* a Swiggy call fails or is refused

ASSUME OrderConstants ==
  /\ IsFiniteSet(Orders) /\ NoOrder \notin Orders
  /\ Cost \in [Orders -> Nat \ {0}]
  /\ Deposited \in Nat /\ OrderLimit \in Nat
  /\ Faults \subseteq FaultKinds
  /\ MaxPlacements \in Nat \ {0}

VARIABLES status,    \* orders.status, "NONE" before the row exists
          ref,       \* has orders.swiggyOrderRef been set?
          task,      \* per request: the await it is at, and its order
          money,     \* the wallet's row
          txn,       \* per request: the escrow transaction opened for it
          cart,      \* the order whose items Swiggy's cart holds, if any
          placed,    \* per order: Swiggy orders its confirmations created
          captured, released,  \* per order: captures and releases served
          raced,     \* orders changed under another request's eyes
          lost       \* has an update of the hold been lost?

orderVars == <<status, ref, task, money, txn, cart, placed, captured,
               released, raced, lost>>

Escrow == INSTANCE Wallet
          WITH MoneyTxns <- Requests, PlanTxns <- {},
               Amounts <- {Cost[o] : o \in Orders}, CYCLE_DAYS <- 30,
               Ops <- {"reserve", "capture", "release", "debit"},
               DebtBound <- 0, row <- money, txn <- txn, answer <- task

(* A wallet with balance b, h of it held.                                   *)
Balance(b, h) == [present |-> TRUE, currentBalance |-> b, reservedAmount |-> h]

NoTxn == [op |-> "idle", order |-> NoOrder, read |-> Balance(0, 0)]

Statuses == {"NONE", "PENDING_CONFIRMATION", "PLACED", "DELIVERED", "FAILED"}

Pcs == {"idle",
        "reserve", "reserve_answer", "create",
        "update_food_cart", "get_food_cart", "place_food_order", "reconcile",
        "mark_placed", "capture", "capture_answer", "publish_placed",
        "mark_failed", "release", "release_answer", "publish_failed",
        "track_food_order", "mark_delivered", "publish_delivered"}

Init ==
  /\ status = [o \in Orders |-> "NONE"] /\ ref = [o \in Orders |-> FALSE]
  /\ task = [r \in Requests |-> [pc |-> "idle", order |-> NoOrder]]
  /\ money = Balance(Deposited, 0) /\ txn = [r \in Requests |-> NoTxn]
  /\ raced = {} /\ lost = FALSE
  /\ cart = NoOrder
  /\ placed = [o \in Orders |-> 0]
  /\ captured = [o \in Orders |-> 0] /\ released = [o \in Orders |-> 0]

At(r, pc, o) == task[r] = [pc |-> pc, order |-> o]

Go(r, o, pc) == task' = [task EXCEPT ![r] = [pc |-> pc, order |-> o]]

Return(r) == task' = [task EXCEPT ![r] = [pc |-> "idle", order |-> NoOrder]]

Failing(kind) == kind \in Faults

(* A new request is handled by r.  An r whose last call to escrow timed out  *)
(* is taken again once escrow has ended that transaction.                    *)
Starts(r) == task[r].pc = "idle" /\ txn[r] = NoTxn

(* orders.update by id alone: the new status goes over whatever is there.    *)
SetStatus(r, o, new) ==
  /\ status' = [status EXCEPT ![o] = new]
  /\ raced' = IF \E q \in Requests \ {r} : task[q].order = o
                THEN raced \union {o} ELSE raced

swiggyVars == <<cart, placed>>
moneyVars  == <<money, txn, captured, released, lost>>
rowVars    == <<status, ref, raced>>

-----------------------------------------------------------------------------
(* escrow-service serves a call in a transaction of its own, see Wallet.     *)

Admits(o, op) == Escrow!Admits(op, money, Cost[o])

(* SELECT, and the check that passes: the transaction is open.               *)
OpenTxn(r, o, op) ==
  /\ Admits(o, op)
  /\ txn' = [txn EXCEPT ![r] = [op |-> op, order |-> o, read |-> money]]

(* UPDATE and commit.  The hold is lost when it has changed since the read.  *)
CommitTxn(r) ==
  LET t == txn[r] IN
  /\ t.op # "idle"
  /\ money' = Escrow!Update(t.op, t.read, money, Cost[t.order])
  /\ lost' = (lost \/ t.read.reservedAmount # money.reservedAmount)
  /\ captured' = [captured EXCEPT ![t.order] = IF t.op = "capture" THEN @ + 1 ELSE @]
  /\ released' = [released EXCEPT ![t.order] = IF t.op = "release" THEN @ + 1 ELSE @]
  /\ txn' = [txn EXCEPT ![r] = NoTxn]
  /\ UNCHANGED <<rowVars, task, swiggyVars>>

(* The transaction fails or runs out of time and is rolled back; a request   *)
(* that still waits for its reservation gets the error.                      *)
AbortTxn(r) ==
  /\ Failing("escrow") /\ txn[r].op # "idle"
  /\ txn' = [txn EXCEPT ![r] = NoTxn]
  /\ IF task[r].pc = "reserve_answer" THEN Return(r) ELSE UNCHANGED task
  /\ UNCHANGED <<rowVars, money, captured, released, lost, swiggyVars>>

-----------------------------------------------------------------------------
(* populateAndAwaitConfirmation                                              *)

ExecuteOrder(r, o) ==
  /\ Starts(r) /\ status[o] = "NONE"
  /\ \A q \in Requests : task[q].order # o
  /\ Cost[o] < OrderLimit
  /\ Go(r, o, "reserve")
  /\ UNCHANGED <<rowVars, moneyVars, swiggyVars>>

(* escrow.reserve: an error answer ends the request before the order row     *)
(* exists.                                                                   *)
ReserveHold(r, o) ==
  /\ At(r, "reserve", o)
  /\ \/ OpenTxn(r, o, "reserve") /\ Go(r, o, "reserve_answer")
     \/ /\ Failing("escrow") \/ ~Admits(o, "reserve")
        /\ Return(r) /\ UNCHANGED txn
  /\ UNCHANGED <<rowVars, money, captured, released, lost, swiggyVars>>

(* So does an answer that does not come within 5 seconds -- although the     *)
(* hold may have been taken, or be taken yet.                                *)
ReserveAnswered(r, o) ==
  /\ At(r, "reserve_answer", o)
  /\ \/ txn[r] = NoTxn /\ Go(r, o, "create")
     \/ Failing("escrow") /\ Return(r)
  /\ UNCHANGED <<rowVars, moneyVars, swiggyVars>>

CreateOrder(r, o) ==
  /\ At(r, "create", o)
  /\ SetStatus(r, o, "PENDING_CONFIRMATION")
  /\ Go(r, o, "update_food_cart")
  /\ UNCHANGED <<ref, moneyVars, swiggyVars>>

(* update_food_cart replaces Swiggy's cart.  A refusal comes back as         *)
(* {success: false} with status 200, which this caller does not look at; an  *)
(* error, after which the cart may or may not have been replaced, goes to    *)
(* markFailed.                                                               *)
UpdateFoodCart(r, o) ==
  /\ At(r, "update_food_cart", o)
  /\ \/ cart' = o /\ Go(r, o, "get_food_cart")
     \/ /\ Failing("swiggy")
        /\ \/ UNCHANGED cart /\ Go(r, o, "get_food_cart")
           \/ cart' \in {cart, o} /\ Go(r, o, "mark_failed")
  /\ UNCHANGED <<rowVars, moneyVars, placed>>

(* apply_food_coupon and get_food_cart, whose answers change nothing here,   *)
(* then the confirmation request, whose failure is ignored.                  *)
CheckFoodCart(r, o) ==
  /\ At(r, "get_food_cart", o)
  /\ Return(r) \/ (Failing("swiggy") /\ Go(r, o, "mark_failed"))
  /\ UNCHANGED <<rowVars, moneyVars, swiggyVars>>

-----------------------------------------------------------------------------
(* confirmAndPlace                                                           *)

ConfirmAllowed(o) == status[o] = "PENDING_CONFIRMATION"

Confirm(r, o) ==
  /\ Starts(r) /\ ConfirmAllowed(o)
  /\ Go(r, o, "place_food_order")
  /\ UNCHANGED <<rowVars, moneyVars, swiggyVars>>

(* place_food_order buys what the cart holds; the cart may be emptied by it. *)
Buy(o) ==
  /\ cart # NoOrder /\ placed[o] < MaxPlacements
  /\ placed' = [placed EXCEPT ![o] = @ + 1]
  /\ cart' \in {cart, NoOrder}

(* Success; a refusal, {success: false}; or an error after which nobody      *)
(* knows whether Swiggy has the order.                                       *)
PlaceFoodOrder(r, o) ==
  /\ At(r, "place_food_order", o)
  /\ \/ Buy(o) /\ Go(r, o, "mark_placed")
     \/ /\ Failing("swiggy") \/ cart = NoOrder
        /\ UNCHANGED swiggyVars /\ Go(r, o, "mark_failed")
     \/ /\ Failing("swiggy")
        /\ Buy(o) \/ UNCHANGED swiggyVars
        /\ Go(r, o, "reconcile")
  /\ UNCHANGED <<rowVars, moneyVars>>

(* Mutant: an ambiguous failure is taken for a success.                      *)
ReconcileAsPlaced(r, o) ==
  /\ At(r, "reconcile", o)
  /\ Go(r, o, "mark_placed")
  /\ UNCHANGED <<rowVars, moneyVars, swiggyVars>>

(* reconcileAmbiguousFailure: get_food_orders is only logged; fail closed.   *)
Reconcile(r, o) ==
  /\ At(r, "reconcile", o)
  /\ Go(r, o, "mark_failed")
  /\ UNCHANGED <<rowVars, moneyVars, swiggyVars>>

-----------------------------------------------------------------------------
(* markPlaced                                                                *)

MarkPlaced(r, o) ==
  /\ At(r, "mark_placed", o)
  /\ SetStatus(r, o, "PLACED")
  /\ ref' = [ref EXCEPT ![o] = TRUE]
  /\ Go(r, o, "capture")
  /\ UNCHANGED <<moneyVars, swiggyVars>>

(* A hold is settled by a call of escrow, op, and the event published next:  *)
(* any error is logged, and the handler goes on.                             *)
Settle(r, o, op, wait, next) ==
  /\ At(r, op, o)
  /\ \/ OpenTxn(r, o, op) /\ Go(r, o, wait)
     \/ /\ Failing("escrow") \/ ~Admits(o, op)
        /\ Go(r, o, next) /\ UNCHANGED txn
  /\ UNCHANGED <<rowVars, money, captured, released, lost, swiggyVars>>

Settled(r, o, wait, next) ==
  /\ At(r, wait, o)
  /\ txn[r] = NoTxn \/ Failing("escrow")
  /\ Go(r, o, next)
  /\ UNCHANGED <<rowVars, moneyVars, swiggyVars>>

Capture(r, o) == Settle(r, o, "capture", "capture_answer", "publish_placed")

Captured(r, o) == Settled(r, o, "capture_answer", "publish_placed")

(* An event is published, and the request answered; where an event goes is   *)
(* for the modules that compose this one with the bus.                       *)
Publish(r, o, pc) ==
  /\ At(r, pc, o)
  /\ Return(r)
  /\ UNCHANGED <<rowVars, moneyVars, swiggyVars>>

PublishPlaced(r, o) == Publish(r, o, "publish_placed")

(* markFailed                                                                *)

(* Mutant: the hold is released but the order stays open for confirmation.   *)
MarkFailedForgotten(r, o) ==
  /\ At(r, "mark_failed", o)
  /\ Go(r, o, "release")
  /\ UNCHANGED <<rowVars, moneyVars, swiggyVars>>

MarkFailed(r, o) ==
  /\ At(r, "mark_failed", o)
  /\ SetStatus(r, o, "FAILED")
  /\ Go(r, o, "release")
  /\ UNCHANGED <<ref, moneyVars, swiggyVars>>

Release(r, o) == Settle(r, o, "release", "release_answer", "publish_failed")

Released(r, o) == Settled(r, o, "release_answer", "publish_failed")

PublishFailed(r, o) == Publish(r, o, "publish_failed")

-----------------------------------------------------------------------------
(* pollDeliveryStatus                                                        *)

(* Mutant: delivery is tracked for an order Swiggy has not given a reference. *)
PollWithoutRef(o) == status[o] # "NONE"

PollAllowed(o) == ref[o]

PollDelivery(r, o) ==
  /\ Starts(r) /\ PollAllowed(o)
  /\ Go(r, o, "track_food_order")
  /\ UNCHANGED <<rowVars, moneyVars, swiggyVars>>

TrackFoodOrder(r, o) ==
  /\ At(r, "track_food_order", o)
  /\ Go(r, o, "mark_delivered") \/ Return(r)
  /\ UNCHANGED <<rowVars, moneyVars, swiggyVars>>

MarkDelivered(r, o) ==
  /\ At(r, "mark_delivered", o)
  /\ SetStatus(r, o, "DELIVERED")
  /\ Go(r, o, "publish_delivered")
  /\ UNCHANGED <<ref, moneyVars, swiggyVars>>

PublishDelivered(r, o) == Publish(r, o, "publish_delivered")

-----------------------------------------------------------------------------
(* The process dies, a database statement fails, or a publish -- none is     *)
(* wrapped in try/catch here -- throws: the handler ends where it is, with   *)
(* the effects it has already had.                                           *)
Die(r) ==
  /\ Failing("die") /\ task[r].pc # "idle"
  /\ Return(r)
  /\ UNCHANGED <<rowVars, moneyVars, swiggyVars>>

(* One await of the handler that request r is in.                            *)
Step(r, o) ==
  \/ ReserveHold(r, o) \/ ReserveAnswered(r, o) \/ CreateOrder(r, o)
  \/ UpdateFoodCart(r, o) \/ CheckFoodCart(r, o)
  \/ PlaceFoodOrder(r, o) \/ Reconcile(r, o)
  \/ MarkPlaced(r, o) \/ Capture(r, o) \/ Captured(r, o) \/ PublishPlaced(r, o)
  \/ MarkFailed(r, o) \/ Release(r, o) \/ Released(r, o) \/ PublishFailed(r, o)
  \/ TrackFoodOrder(r, o) \/ MarkDelivered(r, o) \/ PublishDelivered(r, o)

Arrival(r, o) == ExecuteOrder(r, o) \/ Confirm(r, o) \/ PollDelivery(r, o)

Next == \E r \in Requests : \/ \E o \in Orders : Arrival(r, o) \/ Step(r, o)
                            \/ CommitTxn(r) \/ AbortTxn(r) \/ Die(r)

Spec == Init /\ [][Next]_orderVars

-----------------------------------------------------------------------------
(* The variables have their types; a request that works on an order works on *)
(* one whose row exists, once it is past the creation; the hold is no debt.  *)
Wallets == [present : {TRUE}, currentBalance : Int, reservedAmount : Nat]

TypeOK ==
  /\ status \in [Orders -> Statuses] /\ ref \in [Orders -> BOOLEAN]
  /\ task \in [Requests -> [pc : Pcs, order : Orders \union {NoOrder}]]
  /\ money \in Wallets
  /\ txn \in [Requests -> [op : {"idle", "reserve", "capture", "release"},
                           order : Orders \union {NoOrder}, read : Wallets]]
  /\ cart \in Orders \union {NoOrder}
  /\ placed \in [Orders -> 0..MaxPlacements]
  /\ captured \in [Orders -> Nat] /\ released \in [Orders -> Nat]
  /\ raced \subseteq Orders /\ lost \in BOOLEAN
  /\ \A r \in Requests :
       /\ task[r].pc = "idle" <=> task[r].order = NoOrder
       /\ task[r].pc \notin {"idle", "reserve", "reserve_answer", "create"} =>
            status[task[r].order] # "NONE"

(* Money leaves the wallet for an order only as often as Swiggy has taken    *)
(* that order: an ambiguous failure is never charged.                        *)
ChargedOnlyIfPlaced == \A o \in Orders : captured[o] <= placed[o]

(* A hold is settled -- captured or released -- at most once, whatever dies  *)
(* or times out between the status update and the call to escrow, and        *)
(* whatever requests overlap, unless the status of the order was changed     *)
(* under the eyes of another request at work on it.                          *)
SettledAtMostOnce == \A o \in Orders \ raced : captured[o] + released[o] <= 1

(* The settlement of o's hold is still to be asked for, or in progress.      *)
SettlementDue(r, o) == \/ At(r, "capture", o) \/ At(r, "release", o)
                       \/ txn[r].order = o /\ txn[r].op # "reserve"

(* The wallet holds the money of every order that can be confirmed or whose  *)
(* settlement is due: escrow never refuses one for want of a hold, however   *)
(* the holds of other orders are taken, settled, abandoned or left behind    *)
(* meanwhile.  Only two things can break this: an update of the hold that is *)
(* lost between two transactions, and an order changed by two requests.      *)
HoldBacksPending ==
  LET open == {o \in Orders : ConfirmAllowed(o) \/ \E r \in Requests : SettlementDue(r, o)}
  IN  lost \/ raced # {} \/ money.reservedAmount >= MapThenSumSet(LAMBDA o : Cost[o], open)

(* The status of an order only moves forward -- a placed or delivered order  *)
(* is never failed, a failed one never placed -- until two requests have     *)
(* changed it under each other's eyes.                                       *)
StatusForward ==
  [][\A o \in Orders \ raced : status'[o] # status[o] =>
       <<status[o], status'[o]>> \in
         {<<"NONE", "PENDING_CONFIRMATION">>, <<"PENDING_CONFIRMATION", "PLACED">>,
          <<"PENDING_CONFIRMATION", "FAILED">>, <<"PLACED", "DELIVERED">>}]_orderVars

(* "place_food_order is non-idempotent": one confirmed order is placed once. *)
NeverPlacedTwice == \A o \in Orders : placed[o] <= 1

(* "Never places an order without a confirmed human-in-the-loop gate": what  *)
(* is bought on the confirmation of an order is the cart of that order.      *)
OnlyConfirmedCartsBought ==
  [][\A o \in Orders : placed'[o] # placed[o] => cart = o]_orderVars
=============================================================================
