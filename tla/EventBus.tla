------------------------------ MODULE EventBus ------------------------------
(***************************************************************************)
(* packages/event-bus: one SQS queue fed by EventBridge, and the poll loops *)
(* of the EventSubscribers that read it (one per replica of the consuming   *)
(* service).  A received message is hidden from other receives until its    *)
(* visibility timeout; only a delete takes it out of the queue.  The loop   *)
(* handles the messages of a batch one after the other, in the order SQS    *)
(* happened to list them, which is any order.                               *)
(***************************************************************************)
EXTENDS Integers, FiniteSets

CONSTANTS Events,     \* the published events
          Kind,       \* what the subscriber makes of each: see Kinds
          Consumers,  \* poll loops on the queue
          BatchMax,   \* MaxNumberOfMessages, 10 in the code
          NoEvent

Kinds == {"subscribed",   \* of the event type the handler was registered for
          "foreign",      \* of another event type
          "unreadable"}   \* no body, or a body that is not JSON

ASSUME BusConstants ==
  /\ Kind \in [Events -> Kinds]
  /\ BatchMax \in Nat \ {0}
  /\ NoEvent \notin Events

VARIABLES queue,    \* messages in SQS
          hidden,   \* those of them inside their visibility timeout
          batch,    \* per consumer: received messages still to be processed
          current,  \* per consumer: the message processed but not yet deleted
          handled   \* per event: handler completions, 0, 1, or 2 for more

busVars == <<queue, hidden, batch, current, handled>>

Init == /\ queue = {} /\ hidden = {}
        /\ batch = [c \in Consumers |-> {}]
        /\ current = [c \in Consumers |-> NoEvent]
        /\ handled = [e \in Events |-> 0]

(* publish: PutEvents is accepted and EventBridge puts a message in the      *)
(* queue.  An event may be published again.                                  *)
Deliver(e) ==
  /\ queue' = queue \union {e}
  /\ UNCHANGED <<hidden, batch, current, handled>>

(* ReceiveMessageCommand returns some of the visible messages.               *)
Receive(c, S) ==
  /\ batch[c] = {} /\ S # {} /\ S \subseteq queue \ hidden
  /\ Cardinality(S) <= BatchMax
  /\ hidden' = hidden \union S
  /\ batch' = [batch EXCEPT ![c] = S]
  /\ UNCHANGED <<queue, current, handled>>

(* processMessage calls the handler and it succeeds.                         *)
HandleOk(c, e) ==
  /\ e \in batch[c] /\ current[c] = NoEvent /\ Kind[e] = "subscribed"
  /\ current' = [current EXCEPT ![c] = e]
  /\ handled' = [handled EXCEPT ![e] = IF @ < 2 THEN @ + 1 ELSE 2]
  /\ UNCHANGED <<queue, hidden, batch>>

(* A message of another type is not handled but deleted all the same.        *)
SkipForeign(c, e) ==
  /\ e \in batch[c] /\ current[c] = NoEvent /\ Kind[e] = "foreign"
  /\ current' = [current EXCEPT ![c] = e]
  /\ UNCHANGED <<queue, hidden, batch, handled>>

(* Mutant: an error in the handler is swallowed and the message deleted.     *)
HandlerErrorSwallowed(c, e) ==
  /\ e \in batch[c] /\ current[c] = NoEvent /\ Kind[e] # "foreign"
  /\ batch' = [batch EXCEPT ![c] = @ \ {e}]
  /\ queue' = queue \ {e}
  /\ UNCHANGED <<hidden, current, handled>>

(* The handler, or reading the message, throws: the error is caught, the     *)
(* message stays in the queue, and the loop goes on to the next one.         *)
LeaveInQueue(c, e) ==
  /\ e \in batch[c] /\ current[c] = NoEvent /\ Kind[e] # "foreign"
  /\ batch' = [batch EXCEPT ![c] = @ \ {e}]
  /\ UNCHANGED <<queue, hidden, current, handled>>

Delete(c) ==
  /\ current[c] # NoEvent
  /\ queue' = queue \ {current[c]}
  /\ hidden' = hidden \ {current[c]}
  /\ batch' = [batch EXCEPT ![c] = @ \ {current[c]}]
  /\ current' = [current EXCEPT ![c] = NoEvent]
  /\ UNCHANGED handled

(* The delete request fails: the message will be delivered again.            *)
DeleteFails(c) ==
  /\ current[c] # NoEvent
  /\ batch' = [batch EXCEPT ![c] = @ \ {current[c]}]
  /\ current' = [current EXCEPT ![c] = NoEvent]
  /\ UNCHANGED <<queue, hidden, handled>>

(* The visibility timeout runs out, perhaps while a consumer is still busy   *)
(* with the message.                                                         *)
Reappear(e) ==
  /\ e \in hidden
  /\ hidden' = hidden \ {e}
  /\ UNCHANGED <<queue, batch, current, handled>>

(* The consumer's process dies and is restarted with an empty batch.         *)
Crash(c) ==
  /\ batch[c] # {}
  /\ batch' = [batch EXCEPT ![c] = {}]
  /\ current' = [current EXCEPT ![c] = NoEvent]
  /\ UNCHANGED <<queue, hidden, handled>>

Consume(c) ==
  \/ \E S \in SUBSET Events : Receive(c, S)
  \/ \E e \in Events : HandleOk(c, e) \/ SkipForeign(c, e) \/ LeaveInQueue(c, e)
  \/ Delete(c) \/ DeleteFails(c)

(* Everything but the arrival of messages.                                   *)
Work == \/ \E c \in Consumers : Consume(c) \/ Crash(c)
        \/ \E e \in Events : Reappear(e)

Next == Work \/ \E e \in Events : Deliver(e)

Spec == Init /\ [][Next]_busVars

Subscribed == {e \in Events : Kind[e] = "subscribed"}

(* The loop keeps running; SQS shows a hidden message again and does not     *)
(* withhold a visible one for ever; a handler that is given the same message *)
(* again and again does not fail every time.  Nothing is assumed of other    *)
(* messages.                                                                 *)
Fairness ==
  /\ \A e \in Subscribed : WF_busVars(Reappear(e))
  /\ \A c \in Consumers :
       /\ WF_busVars(Consume(c))
       /\ \A e \in Subscribed :
            /\ SF_busVars(\E S \in SUBSET Events : e \in S /\ Receive(c, S))
            /\ SF_busVars(HandleOk(c, e))

FairSpec == Spec /\ Fairness

-----------------------------------------------------------------------------
(* The variables have their types; only a message of the queue is hidden,    *)
(* and a loop deletes only a message of the batch it is working on.          *)
TypeOK ==
  /\ queue \subseteq Events /\ hidden \subseteq queue
  /\ batch \in [Consumers -> SUBSET Events]
  /\ current \in [Consumers -> Events \union {NoEvent}]
  /\ \A c \in Consumers : current[c] # NoEvent => current[c] \in batch[c]
  /\ handled \in [Events -> 0..2]

(* An event of the subscribed type leaves the queue only after its handler   *)
(* has completed for it: "do not swallow errors here".                       *)
DeletedOnlyAfterHandled ==
  [][\A e \in Events :
       e \in queue \ queue' /\ Kind[e] = "subscribed" => handled[e] > 0]_busVars

(* Every event of the subscribed type that reaches the queue is handled,     *)
(* whatever unreadable or failing messages share its batches.                *)
AtLeastOnce ==
  \A e \in Subscribed : e \in queue ~> handled[e] > 0
=============================================================================
