------------------------------- MODULE Payment -------------------------------
(***************************************************************************)
(* What a user pays for an order when order-execution-service, the event    *)
(* bus and escrow-service run together.  order-execution captures the hold  *)
(* itself and then publishes OrderPlaced; escrow-service's consumer of      *)
(* OrderPlaced debits the same wallet.                                      *)
(***************************************************************************)
EXTENDS OrderExecution

CONSTANTS Replicas,   \* escrow-service processes reading the queue
          Lossy,      \* may EventBridge reject the entry of a publish?
          MaxDebits   \* bound: debits explored per order

ASSUME PaymentConstants == Lossy \in BOOLEAN /\ MaxDebits \in Nat \ {0}

VARIABLES queue, hidden, batch, current, handled,  \* the bus, see EventBus
          debiting,  \* per consumer: the debit's open transaction
          debited    \* per order: debits served

busVars == <<queue, hidden, batch, current, handled>>
debitVars == <<debiting, debited>>
paymentVars == <<orderVars, busVars, debitVars>>

(* The queue of OrderPlaced events; each is known by its order.              *)
Bus == INSTANCE EventBus
       WITH Events <- Orders, Kind <- [o \in Orders |-> "subscribed"],
            Consumers <- Replicas, BatchMax <- 10, NoEvent <- NoOrder

NoDebit == [order |-> NoOrder, read |-> Balance(0, 0)]

PaymentInit == /\ Init /\ Bus!Init
               /\ debiting = [c \in Replicas |-> NoDebit]
               /\ debited = [o \in Orders |-> 0]

(* An await of order-execution; its publish of OrderPlaced reaches the queue, *)
(* unless the entry is rejected: publish does not look at FailedEntryCount.  *)
OrderStep ==
  /\ \/ \E r \in Requests, o \in Orders :
          /\ PublishPlaced(r, o)
          /\ Bus!Deliver(o) \/ (Lossy /\ UNCHANGED busVars)
     \/ /\ Next /\ UNCHANGED busVars
        /\ ~\E r \in Requests, o \in Orders : PublishPlaced(r, o)
  /\ UNCHANGED debitVars

notMoney == <<status, ref, task, txn, cart, placed, captured, released,
              raced, lost>>

(* The consumer's handler debits the price of the order: SELECT and check.   *)
BeginDebit(c, o) ==
  /\ o \in batch[c] /\ current[c] = NoOrder /\ debiting[c] = NoDebit
  /\ Admits(o, "debit") /\ debited[o] < MaxDebits
  /\ debiting' = [debiting EXCEPT ![c] = [order |-> o, read |-> money]]
  /\ UNCHANGED <<orderVars, busVars, debited>>

(* UPDATE and commit, which writes the balance only; the handler returns.    *)
DebitPlaced(c, o) ==
  /\ debiting[c].order = o /\ Bus!HandleOk(c, o)
  /\ money' = Escrow!Update("debit", debiting[c].read, money, Cost[o])
  /\ debiting' = [debiting EXCEPT ![c] = NoDebit]
  /\ debited' = [debited EXCEPT ![o] = @ + 1]
  /\ UNCHANGED notMoney

(* Mutant: the error is logged instead, and the message deleted.             *)
DebitErrorSwallowed(c, o) ==
  /\ debiting[c].order \in {o, NoOrder} /\ Bus!HandlerErrorSwallowed(c, o)
  /\ debiting' = [debiting EXCEPT ![c] = NoDebit]
  /\ UNCHANGED <<orderVars, debited>>

(* The debit is refused, or the database fails: the error propagates.        *)
DebitFails(c, o) ==
  /\ debiting[c].order \in {o, NoOrder} /\ Bus!LeaveInQueue(c, o)
  /\ debiting' = [debiting EXCEPT ![c] = NoDebit]
  /\ UNCHANGED <<orderVars, debited>>

(* The consumer's process dies, and its transaction is rolled back.          *)
ConsumerDies(c) ==
  /\ Bus!Crash(c)
  /\ debiting' = [debiting EXCEPT ![c] = NoDebit]
  /\ UNCHANGED <<orderVars, debited>>

BusStep ==
  /\ \/ \E c \in Replicas : \/ \E S \in SUBSET Orders : Bus!Receive(c, S)
                            \/ Bus!Delete(c) \/ Bus!DeleteFails(c)
     \/ \E o \in Orders : Bus!Reappear(o)
  /\ UNCHANGED <<orderVars, debitVars>>

PaymentNext ==
  \/ OrderStep \/ BusStep
  \/ \E c \in Replicas :
       \/ ConsumerDies(c)
       \/ \E o \in Orders : BeginDebit(c, o) \/ DebitPlaced(c, o) \/ DebitFails(c, o)

PaymentSpec == PaymentInit /\ [][PaymentNext]_paymentVars

(* The queue serves its messages as EventBus assumes: a debit that is        *)
(* possible again and again is not refused every time.  Nothing is assumed   *)
(* of order-execution, whose handlers may die.                               *)
PaymentFairness ==
  /\ \A o \in Orders : WF_paymentVars(Bus!Reappear(o) /\ UNCHANGED <<orderVars, debitVars>>)
  /\ \A c \in Replicas :
       /\ WF_paymentVars(Bus!Delete(c) /\ UNCHANGED <<orderVars, debitVars>>)
       /\ \A o \in Orders :
            /\ SF_paymentVars(/\ \E S \in SUBSET Orders : o \in S /\ Bus!Receive(c, S)
                              /\ UNCHANGED <<orderVars, debitVars>>)
            /\ SF_paymentVars(BeginDebit(c, o)) /\ SF_paymentVars(DebitPlaced(c, o))

PaymentFairSpec == PaymentSpec /\ PaymentFairness

-----------------------------------------------------------------------------
(* The consumer never debits an order that Swiggy has not taken: markFailed, *)
(* an ambiguous answer or a handler that dies publishes no OrderPlaced, even *)
(* when two confirmations of the order overlap.                              *)
DebitedOnlyIfPlaced == \A o \in Orders : debited[o] > 0 => placed[o] > 0

(* A capture that fails is logged only, yet the order does not stay unpaid:  *)
(* once its OrderPlaced has reached the queue, and although it may reach it   *)
(* late or more than once, the price is taken from the wallet.               *)
PlacedIsPaid == \A o \in Orders : o \in queue ~> captured[o] + debited[o] > 0

(* "This service must use exactly one payment path": an order is charged     *)
(* once.                                                                     *)
ChargedOnce == \A o \in Orders : captured[o] + debited[o] <= 1
=============================================================================
