-------------------------- MODULE NotificationProofs --------------------------
(***************************************************************************)
(* Theorems about EventBus, for any events, any number of consumers and any *)
(* batch size, and about Notification, for any devices and any number of    *)
(* crashes.                                                                 *)
(***************************************************************************)
EXTENDS Notification, TLAPS

(* Whatever a loop is about to delete has been handled, or is not a message  *)
(* the handler was registered for; handled counts completions.               *)
DueForDeletion ==
  /\ TypeOK
  /\ \A c \in Consumers :
       current[c] # NoEvent /\ Kind[current[c]] = "subscribed"
         => handled[current[c]] > 0

(* An empty queue and idle loops satisfy it.                                 *)
LEMMA DueInit == Init => DueForDeletion
BY DEF Init, DueForDeletion, TypeOK

(* One step keeps it.                                                        *)
LEMMA DueStep == ASSUME DueForDeletion, [Next]_busVars PROVE DueForDeletion'
<1> USE BusConstants DEF DueForDeletion, TypeOK
<1>1. ASSUME NEW e \in Events, Deliver(e) PROVE DueForDeletion'
  BY <1>1 DEF Deliver
<1>2. ASSUME NEW c \in Consumers, NEW S \in SUBSET Events, Receive(c, S)
      PROVE  DueForDeletion'
  BY <1>2 DEF Receive
<1>3. ASSUME NEW c \in Consumers, NEW e \in Events, HandleOk(c, e)
      PROVE  DueForDeletion'
  <2>1. handled' \in [Events -> 0..2] BY <1>3 DEF HandleOk
  <2>2. handled'[e] > 0 /\ \A d \in Events : handled[d] > 0 => handled'[d] > 0
    BY <1>3 DEF HandleOk
  <2>3. QED BY <1>3, <2>1, <2>2 DEF HandleOk
<1>4. ASSUME NEW c \in Consumers, NEW e \in Events, SkipForeign(c, e)
      PROVE  DueForDeletion'
  BY <1>4 DEF SkipForeign
<1>5. ASSUME NEW c \in Consumers, NEW e \in Events, LeaveInQueue(c, e)
      PROVE  DueForDeletion'
  BY <1>5 DEF LeaveInQueue
<1>6. ASSUME NEW c \in Consumers, Delete(c) PROVE DueForDeletion'
  BY <1>6 DEF Delete
<1>7. ASSUME NEW c \in Consumers, DeleteFails(c) PROVE DueForDeletion'
  BY <1>7 DEF DeleteFails
<1>8. ASSUME NEW c \in Consumers, Crash(c) PROVE DueForDeletion'
  BY <1>8 DEF Crash
<1>9. ASSUME NEW e \in Events, Reappear(e) PROVE DueForDeletion'
  BY <1>9 DEF Reappear
<1>10. CASE UNCHANGED busVars BY <1>10 DEF busVars
<1>11. QED
  BY <1>1, <1>2, <1>3, <1>4, <1>5, <1>6, <1>7, <1>8, <1>9, <1>10
  DEF Next, Work, Consume

(* Type correctness of the queue: only a message of the queue is hidden, and *)
(* a loop deletes only a message of the batch it is working on, with any     *)
(* number of replicas, crashes and redeliveries.                             *)
THEOREM BusTypeCorrect == Spec => []TypeOK
<1>1. DueForDeletion => TypeOK BY DEF DueForDeletion
<1>2. QED BY DueInit, DueStep, <1>1, PTL DEF Spec

(* A subscribed event leaves the queue only after its handler has completed, *)
(* with any number of replicas, crashes, redeliveries and failing handlers:  *)
(* a message is never lost to a swallowed error.                             *)
THEOREM NothingLost == Spec => DeletedOnlyAfterHandled
<1>1. DueForDeletion /\ [Next]_busVars
        => [\A e \in Events :
              e \in queue \ queue' /\ Kind[e] = "subscribed" => handled[e] > 0]_busVars
  <2> SUFFICES ASSUME DueForDeletion, [Next]_busVars,
                      NEW e \in Events, e \in queue \ queue', Kind[e] = "subscribed"
               PROVE  handled[e] > 0
    OBVIOUS
  <2>1. PICK c \in Consumers : Delete(c)
    BY DEF busVars, Next, Work, Consume, Deliver, Receive, HandleOk, SkipForeign,
           LeaveInQueue, DeleteFails, Crash, Reappear
  <2>2. e = current[c] /\ current[c] # NoEvent BY <2>1 DEF Delete
  <2>3. QED BY <2>2 DEF DueForDeletion
<1>2. QED BY DueInit, DueStep, <1>1, PTL DEF Spec, DeletedOnlyAfterHandled

-----------------------------------------------------------------------------
(* To the queue, the service is a consumer like any other: a dispatch is a   *)
(* stutter of the bus, its return the handler's.                             *)
LEMMA StepOfBus == ASSUME [NotifyNext]_notifyVars PROVE [Next]_busVars
<1>1. CASE UserStep
  BY <1>1 DEF UserStep, UpsertEmail, UpsertPushOptOut, UpsertPushToken
<1>2. ASSUME NEW c \in Consumers, ConsumerStep(c) PROVE [Next]_busVars
  <2>1. CASE Transport(c) BY <2>1 DEF Transport, Next, Work, Consume
  <2>2. CASE DispatchStep(c)
    BY <2>2 DEF DispatchStep, SendEmail, LogEmail, EnsurePushEndpoint,
      SetPushEndpointArn, SendPush, LogPush
  <2>3. ASSUME NEW e \in Events, Begin(c, e) \/ Return(c, e) \/ DoNotDispatch(c, e)
        PROVE  [Next]_busVars
    BY <2>3 DEF Begin, Return, DoNotDispatch, Next, Work, Consume
  <2> QED BY <1>2, <2>1, <2>2, <2>3 DEF ConsumerStep
<1>3. ASSUME NEW c \in Consumers, Die(c) PROVE [Next]_busVars
  BY <1>3 DEF Die, Next, Work
<1>4. ASSUME NEW e \in Events, Queue(e) PROVE [Next]_busVars
  BY <1>4 DEF Queue, Next, Work
<1>5. CASE UNCHANGED notifyVars BY <1>5 DEF notifyVars
<1> QED BY <1>1, <1>2, <1>3, <1>4, <1>5 DEF NotifyNext

(* notification-service implements the bus.                                  *)
THEOREM ImplementsBus == NotifySpec => Spec
<1>1. NotifyInit => Init BY DEF NotifyInit
<1>2. [NotifyNext]_notifyVars => [Next]_busVars BY StepOfBus
<1> QED BY <1>1, <1>2, PTL DEF NotifySpec, Spec

(* An event leaves notification-service's queue only after a dispatch for it *)
(* has returned.                                                             *)
THEOREM NoEventLost == NotifySpec => DeletedOnlyAfterHandled
BY ImplementsBus, NothingLost, PTL

-----------------------------------------------------------------------------
(* Where a dispatch stands tells which channels it has been through.         *)
EmailTried(d) ==
  d.read.email => \E what \in {"email sent", "email failed"} : what \in d.dispatched
PushTried(d) ==
  PushTo(d.read) => \E what \in {"push sent", "push failed"} : what \in d.dispatched

(* The record of a dispatch has these fields.                                *)
Shape(d) ==
  d \in [pc : {d.pc}, event : {d.event}, read : {d.read},
         endpoint : {d.endpoint}, dispatched : {d.dispatched}]

(* What is logged, or about to be, was sent.                                 *)
Logged(d) ==
  /\ "email logged" \in d.dispatched => "email sent" \in d.dispatched
  /\ "push logged" \in d.dispatched => "push sent" \in d.dispatched
  /\ d.pc = "log email" => "email sent" \in d.dispatched
  /\ d.pc = "log push" => "push sent" \in d.dispatched

(* A dispatch that is past a channel has tried it.                          *)
InOrder(d) ==
  /\ Shape(d) /\ Logged(d)
  /\ d.pc \in {"log email", "push", "endpoint", "push send", "log push", "sent"}
       => EmailTried(d)
  /\ d.pc \in {"log push", "sent"} => PushTried(d)

(* Every consumer's dispatch is in order.                                   *)
AllInOrder ==
  /\ dispatch = [c \in Consumers |-> dispatch[c]]
  /\ \A c \in Consumers : InOrder(dispatch[c])

(* A step of one consumer that leaves its dispatch in order.                 *)
LEMMA OneInOrder ==
  ASSUME AllInOrder, NEW c \in Consumers, NEW d, InOrder(d),
         dispatch' = [dispatch EXCEPT ![c] = d]
  PROVE  AllInOrder'
BY DEF AllInOrder

(* A consumer without a dispatch: nothing is due.                           *)
LEMMA IdleInOrder == InOrder(Idle)
BY DEF InOrder, Shape, Logged, Idle, EmailTried, PushTried

(* What a note does to a dispatch.                                           *)
Noted(d, what, pc) == [d EXCEPT !.dispatched = @ \union what, !.pc = pc]

(* Note changes the dispatch of its consumer, and that as Noted says.       *)
LEMMA NoteIs ==
  ASSUME AllInOrder, NEW c \in Consumers, NEW what, NEW pc, Note(c, what, pc)
  PROVE  dispatch' = [dispatch EXCEPT ![c] = Noted(dispatch[c], what, pc)]
BY DEF Note, AllInOrder, Noted

(* The steps that note something: what is due before the new place is noted  *)
(* by then.                                                                  *)
LEMMA NoteInOrder ==
  ASSUME AllInOrder, NEW c \in Consumers, NEW what, NEW pc, Note(c, what, pc),
         LET d == dispatch[c]
         IN /\ \/ pc = "log email" \/ EmailTried(d)
               \/ \E w \in {"email sent", "email failed"} : w \in what
            /\ \/ pc \in {"log email", "push"} \/ PushTried(d)
               \/ \E w \in {"push sent", "push failed"} : w \in what,
         pc = "log email" => "email sent" \in what,
         pc = "log push" => "push sent" \in what,
         "email logged" \in what => dispatch[c].pc = "log email",
         "push logged" \in what => dispatch[c].pc = "log push"
  PROVE  AllInOrder'
<1> DEFINE n == Noted(dispatch[c], what, pc)
<1>1. Shape(dispatch[c]) BY DEF AllInOrder, InOrder
<1>2. /\ Shape(n) /\ n.pc = pc /\ n.read = dispatch[c].read
      /\ n.dispatched = dispatch[c].dispatched \union what
  BY <1>1 DEF Shape, Noted
<1> HIDE DEF n
<1>3. EmailTried(n) BY <1>2 DEF EmailTried
<1>4. n.pc \notin {"log email", "push"} => PushTried(n) BY <1>2 DEF PushTried
<1>5. InOrder(n)
  <2>1. Logged(dispatch[c]) BY DEF AllInOrder, InOrder
  <2>2. Logged(n) BY <1>2, <2>1 DEF Logged
  <2> QED BY <1>2, <1>3, <1>4, <2>2 DEF InOrder
<1>6. dispatch' = [dispatch EXCEPT ![c] = n] BY NoteIs DEF n
<1> QED BY <1>5, <1>6, OneInOrder

(* The steps that only move on within the push.                              *)
LEMMA MoveInOrder ==
  ASSUME AllInOrder, NEW c \in Consumers, NEW pc \in {"endpoint", "push send"},
         dispatch[c].pc \in {"push", "endpoint"}, NEW a,
         dispatch' = [dispatch EXCEPT ![c] = [@ EXCEPT !.pc = pc, !.endpoint = a]]
  PROVE  AllInOrder'
<1> DEFINE d == dispatch[c]
           n == [d EXCEPT !.pc = pc, !.endpoint = a]
<1>1. InOrder(d) BY DEF AllInOrder
<1>2. Shape(n) /\ n.pc = pc /\ n.read = d.read /\ n.dispatched = d.dispatched
  BY <1>1 DEF InOrder, Shape
<1>3. EmailTried(d) BY <1>1 DEF InOrder
<1>4. dispatch' = [dispatch EXCEPT ![c] = n] BY DEF AllInOrder
<1> HIDE DEF n
<1>5. EmailTried(n) BY <1>2, <1>3 DEF EmailTried
<1>6. InOrder(n) BY <1>1, <1>2, <1>5 DEF InOrder, Logged
<1> QED BY <1>4, <1>6, OneInOrder

(* Every step of a dispatch leaves it in order, also one that fails.        *)
LEMMA DispatchInOrder ==
  ASSUME AllInOrder, NEW c \in Consumers, DispatchStep(c) PROVE AllInOrder'
<1> DEFINE d == dispatch[c]
<1>0. InOrder(d) BY DEF AllInOrder
<1>1. CASE SendEmail(c)
  <2>1. CASE Note(c, {"email sent"}, "log email")
    BY <2>1, NoteInOrder
  <2>2. CASE Note(c, {"email failed"}, PushOrEnd(d.read))
    <3>1. PushOrEnd(d.read) = "push" \/ PushTried(d) BY DEF PushOrEnd, PushTried
    <3> QED BY <2>2, <3>1, NoteInOrder DEF PushOrEnd
  <2> QED BY <1>1, <2>1, <2>2 DEF SendEmail
<1>2. CASE LogEmail(c)
  <2>1. PICK what \in SUBSET {"email logged"} : Note(c, what, PushOrEnd(d.read))
    BY <1>2 DEF LogEmail
  <2>2. EmailTried(d) BY <1>0, <1>2 DEF InOrder, LogEmail, At
  <2>3. PushOrEnd(d.read) = "push" \/ PushTried(d) BY DEF PushOrEnd, PushTried
  <2>4. dispatch[c].pc = "log email" BY <1>2 DEF LogEmail, At
  <2>5. /\ "push logged" \notin what
        /\ PushOrEnd(d.read) \in {"push", "sent"}
    BY <2>1 DEF PushOrEnd
  <2> QED BY <2>1, <2>2, <2>3, <2>4, <2>5, NoteInOrder
<1>3. CASE EnsurePushEndpoint(c)
  <2>1. EmailTried(d) BY <1>0, <1>3 DEF InOrder, EnsurePushEndpoint, At
  <2>2. CASE Note(c, {"push failed"}, "sent") BY <2>1, <2>2, NoteInOrder
  <2>3. ASSUME NEW pc \in {"endpoint", "push send"}, NEW a,
               dispatch' = [dispatch EXCEPT ![c].pc = pc, ![c].endpoint = a]
        PROVE  AllInOrder'
    <3>1. dispatch' = [dispatch EXCEPT ![c] = [@ EXCEPT !.pc = pc, !.endpoint = a]]
      BY <2>3 DEF AllInOrder
    <3> QED BY <1>3, <3>1, MoveInOrder DEF EnsurePushEndpoint, At
  <2> QED BY <1>3, <2>2, <2>3 DEF EnsurePushEndpoint
<1>4. CASE SetPushEndpointArn(c)
  <2>1. EmailTried(d) BY <1>0, <1>4 DEF InOrder, SetPushEndpointArn, At
  <2>2. CASE Note(c, {"push failed"}, "sent") BY <2>1, <2>2, NoteInOrder
  <2>3. CASE Goto(c, "push send")
    <3>1. dispatch' = [dispatch EXCEPT ![c] =
                         [@ EXCEPT !.pc = "push send", !.endpoint = d.endpoint]]
      BY <1>0, <2>3 DEF Goto, AllInOrder, InOrder, Shape
    <3> QED BY <1>4, <3>1, MoveInOrder DEF SetPushEndpointArn, At
  <2> QED BY <1>4, <2>2, <2>3 DEF SetPushEndpointArn
<1>5. CASE SendPush(c)
  <2>1. EmailTried(d) BY <1>0, <1>5 DEF InOrder, SendPush, At
  <2>2. CASE Note(c, {"push sent"}, "log push") BY <2>1, <2>2, NoteInOrder
  <2>3. CASE Note(c, {"push failed"}, "sent") BY <2>1, <2>3, NoteInOrder
  <2> QED BY <1>5, <2>2, <2>3 DEF SendPush
<1>6. CASE LogPush(c)
  <2>1. PICK what \in SUBSET {"push logged"} : Note(c, what, "sent")
    BY <1>6 DEF LogPush
  <2>2. EmailTried(d) /\ PushTried(d) BY <1>0, <1>6 DEF InOrder, LogPush, At
  <2>3. dispatch[c].pc = "log push" BY <1>6 DEF LogPush, At
  <2>4. "email logged" \notin what BY <2>1
  <2> QED BY <2>1, <2>2, <2>3, <2>4, NoteInOrder
<1> QED BY <1>1, <1>2, <1>3, <1>4, <1>5, <1>6 DEF DispatchStep

(* So every dispatch is in order at all times, whatever crashes.            *)
LEMMA AlwaysInOrder == NotifySpec => []AllInOrder
<1>1. NotifyInit => AllInOrder BY IdleInOrder DEF NotifyInit, AllInOrder
<1>2. AllInOrder /\ [NotifyNext]_notifyVars => AllInOrder'
  <2> SUFFICES ASSUME AllInOrder, [NotifyNext]_notifyVars PROVE AllInOrder' OBVIOUS
  <2>1. CASE UserStep
    BY <2>1 DEF UserStep, UpsertEmail, UpsertPushOptOut, UpsertPushToken, AllInOrder
  <2>2. ASSUME NEW c \in Consumers, ConsumerStep(c) PROVE AllInOrder'
    <3>1. CASE Transport(c) BY <3>1 DEF Transport, AllInOrder
    <3>2. CASE DispatchStep(c) BY <3>2, DispatchInOrder
    <3>3. ASSUME NEW e \in Events, Begin(c, e) PROVE AllInOrder'
      <4>1. InOrder([Idle EXCEPT !.pc = EmailOrNext(contact), !.event = e, !.read = contact])
        <5> DEFINE n == [Idle EXCEPT !.pc = EmailOrNext(contact), !.event = e,
                                     !.read = contact]
        <5>1. /\ Shape(n) /\ n.pc = EmailOrNext(contact) /\ n.read = contact
              /\ n.dispatched = {}
          BY DEF Shape, Idle
        <5> HIDE DEF n
        <5>2. EmailTried(n) \/ n.pc = "email" BY <5>1 DEF EmailTried, EmailOrNext
        <5>3. PushTried(n) \/ n.pc \in {"email", "push"}
          BY <5>1 DEF PushTried, EmailOrNext, PushOrEnd
        <5>4. n.pc \in {"email", "push", "sent"} BY <5>1 DEF EmailOrNext, PushOrEnd
        <5>5. Logged(n) BY <5>1, <5>4 DEF Logged
        <5> QED BY <5>1, <5>2, <5>3, <5>4, <5>5 DEF InOrder, n
      <4> QED BY <3>3, <4>1, OneInOrder DEF Begin
    <3>4. ASSUME NEW e \in Events, Return(c, e) PROVE AllInOrder'
      BY <3>4, IdleInOrder, OneInOrder DEF Return
    <3>5. ASSUME NEW e \in Events, DoNotDispatch(c, e) PROVE AllInOrder'
      BY <3>5 DEF DoNotDispatch, AllInOrder
    <3> QED BY <2>2, <3>1, <3>2, <3>3, <3>4, <3>5 DEF ConsumerStep
  <2>3. ASSUME NEW c \in Consumers, Die(c) PROVE AllInOrder'
    BY <2>3, IdleInOrder, OneInOrder DEF Die
  <2>4. ASSUME NEW e \in Events, Queue(e) PROVE AllInOrder'
    BY <2>4 DEF Queue, AllInOrder
  <2>5. CASE UNCHANGED notifyVars BY <2>5 DEF notifyVars, AllInOrder
  <2> QED BY <2>1, <2>2, <2>3, <2>4, <2>5 DEF NotifyNext
<1> QED BY <1>1, <1>2, PTL DEF NotifySpec

(* When a handler returns, every channel the user could be reached on has    *)
(* been tried, whatever failed in another one.                               *)
THEOREM NoChannelSkipped == NotifySpec => []EveryChannelTried
<1>1. AllInOrder => EveryChannelTried
  BY DEF AllInOrder, InOrder, EmailTried, PushTried, EveryChannelTried, At
<1> QED BY <1>1, AlwaysInOrder, PTL

(* The log has no entry for what was not sent.                               *)
THEOREM LogIsTrue == NotifySpec => []LoggedIsSent
<1>1. AllInOrder => LoggedIsSent BY DEF AllInOrder, InOrder, Logged, LoggedIsSent
<1> QED BY <1>1, AlwaysInOrder, PTL

-----------------------------------------------------------------------------
(* Types.  A dispatch works with a contact that was the user's when it       *)
(* began; it pushes only to a user who had a device then, who therefore has  *)
(* one still.                                                                *)
Sound(d) ==
  /\ Shape(d) /\ d.read \in ContactType
  /\ d.read.pushEndpointArn # None => d.read.pushToken # None
  /\ d.read.pushToken # None => contact.pushToken # None
  /\ d.pc \in {"push", "endpoint", "push send"} => d.read.pushToken # None
  /\ d.pc \in {"endpoint", "push send"} => d.endpoint \in Devices

(* A consumer that dispatches has the event in its batch and has not yet     *)
(* handled it.                                                               *)
Attends(c) ==
  dispatch[c].pc # "idle" => dispatch[c].event \in batch[c] /\ current[c] = NoEvent

(* The user's contact: no endpoint without a device.                         *)
Reachable == /\ contact \in ContactType
             /\ contact.pushEndpointArn # None => contact.pushToken # None

(* The inductive invariant: the bus's, and each dispatch sound and in its   *)
(* consumer's batch.                                                        *)
NotifyInv ==
  /\ DueForDeletion /\ Reachable
  /\ dispatch = [c \in Consumers |-> dispatch[c]]
  /\ \A c \in Consumers : Sound(dispatch[c]) /\ Attends(c)

(* A step of one dispatch need only be checked for that dispatch.            *)
LEMMA OneSound ==
  ASSUME NotifyInv, DueForDeletion', NEW c \in Consumers, NEW d,
         dispatch' = [dispatch EXCEPT ![c] = d], d.event = dispatch[c].event,
         UNCHANGED busVars, ~At(c, "idle"), Sound(d)', Reachable',
         contact'.pushToken = contact.pushToken
  PROVE  NotifyInv'
<1>1. dispatch'[c] = d /\ \A g \in Consumers : g # c => dispatch'[g] = dispatch[g]
  BY DEF NotifyInv
<1>2. \A g \in Consumers : Sound(dispatch[g])' BY <1>1 DEF NotifyInv, Sound, Shape
<1>3. \A g \in Consumers : Attends(g)'
  BY <1>1 DEF NotifyInv, Attends, At, busVars
<1>4. dispatch' = [g \in Consumers |-> dispatch'[g]] BY DEF NotifyInv
<1>5. QED BY <1>2, <1>3, <1>4 DEF NotifyInv

(* The dispatch steps that note what was done in a channel.                  *)
LEMMA NoteSound ==
  ASSUME NotifyInv, DueForDeletion', NEW c \in Consumers, NEW what, NEW pc,
         Note(c, what, pc), UNCHANGED <<busVars, contact>>, ~At(c, "idle"),
         pc = "push" => dispatch[c].read.pushToken # None,
         pc \notin {"endpoint", "push send"}
  PROVE  NotifyInv'
<1> DEFINE d == dispatch[c]
<1>0. PICK n : n = Noted(d, what, pc) OBVIOUS
<1>1. Shape(d) /\ Sound(d) BY DEF NotifyInv, Sound
<1>2. /\ Shape(n) /\ n.pc = pc /\ n.read = d.read /\ n.event = d.event
  BY <1>0, <1>1 DEF Shape, Noted
<1>3. dispatch' = [dispatch EXCEPT ![c] = n]
  BY <1>0 DEF NotifyInv, Note, Noted
<1>4. Sound(n)' BY <1>1, <1>2 DEF Sound, Shape
<1>5. Reachable' BY DEF NotifyInv, Reachable
<1>6. QED BY <1>2, <1>3, <1>4, <1>5, OneSound

(* The dispatch steps that move on within the push.                          *)
LEMMA MoveSound ==
  ASSUME NotifyInv, DueForDeletion', NEW c \in Consumers,
         NEW pc \in {"endpoint", "push send"}, NEW a \in Devices,
         dispatch' = [dispatch EXCEPT ![c] = [@ EXCEPT !.pc = pc, !.endpoint = a]],
         At(c, "push") \/ At(c, "endpoint"), UNCHANGED busVars,
         Reachable', contact'.pushToken = contact.pushToken
  PROVE  NotifyInv'
<1> DEFINE d == dispatch[c]
<1>0. PICK n : n = [d EXCEPT !.pc = pc, !.endpoint = a] OBVIOUS
<1>1. Shape(d) /\ Sound(d) BY DEF NotifyInv, Sound
<1>2. Shape(n) /\ n.pc = pc /\ n.read = d.read /\ n.event = d.event /\ n.endpoint = a
  BY <1>0, <1>1 DEF Shape
<1>3. dispatch' = [dispatch EXCEPT ![c] = n] BY <1>0 DEF NotifyInv
<1>4. d.read.pushToken # None BY <1>1 DEF Sound, At
<1>5. Sound(n)' BY <1>1, <1>2, <1>4 DEF Sound, Shape
<1>6. ~At(c, "idle") BY DEF At
<1>7. QED BY <1>2, <1>3, <1>5, <1>6, OneSound

(* One step of a dispatch keeps the invariant.                               *)
LEMMA DispatchSound ==
  ASSUME NotifyInv, DueForDeletion', NEW c \in Consumers, DispatchStep(c)
  PROVE  NotifyInv'
<1> DEFINE d == dispatch[c]
<1>0. Sound(d) /\ Shape(d) /\ Reachable BY DEF NotifyInv, Sound
<1>a. PushOrEnd(d.read) = "push" => d.read.pushToken # None BY DEF PushOrEnd, PushTo
<1>b. PushOrEnd(d.read) \in {"push", "sent"} BY DEF PushOrEnd
<1>n. ASSUME NEW what, NEW pc \in {"log email", "push", "log push", "sent"},
             Note(c, what, pc), UNCHANGED <<busVars, contact, crashes>>, ~At(c, "idle"),
             pc = "push" => d.read.pushToken # None
      PROVE  NotifyInv'
  <2>1. UNCHANGED <<busVars, contact>> BY <1>n
  <2>2. QED BY <1>n, <2>1, NoteSound
<1>1. CASE SendEmail(c)
  <2>1. ~At(c, "idle") BY <1>1 DEF SendEmail, At
  <2>2. QED BY <1>1, <1>a, <1>b, <1>n, <2>1 DEF SendEmail
<1>2. CASE LogEmail(c)
  <2>1. ~At(c, "idle") BY <1>2 DEF LogEmail, At
  <2>2. QED BY <1>2, <1>a, <1>b, <1>n, <2>1 DEF LogEmail
<1>3. CASE EnsurePushEndpoint(c)
  <2>1. CASE Note(c, {"push failed"}, "sent")
    <3>1. ~At(c, "idle") BY <1>3 DEF EnsurePushEndpoint, At
    <3>2. QED BY <1>3, <1>n, <2>1, <3>1 DEF EnsurePushEndpoint
  <2>2. /\ d.read.pushToken \in Devices
        /\ d.read.pushEndpointArn # None => d.read.pushEndpointArn \in Devices
    BY <1>0, <1>3 DEF Sound, EnsurePushEndpoint, At, ContactType
  <2>3. ASSUME NEW pc \in {"endpoint", "push send"}, NEW a \in Devices,
               dispatch' = [dispatch EXCEPT ![c].pc = pc, ![c].endpoint = a]
        PROVE  NotifyInv'
    <3>1. dispatch' = [dispatch EXCEPT ![c] = [@ EXCEPT !.pc = pc, !.endpoint = a]]
      BY <2>3 DEF NotifyInv
    <3>2. UNCHANGED <<contact, busVars>> /\ At(c, "push") BY <1>3 DEF EnsurePushEndpoint
    <3>3. Reachable' BY <1>0, <3>2 DEF Reachable
    <3>4. QED BY <3>1, <3>2, <3>3, MoveSound
  <2>4. QED BY <1>3, <2>1, <2>2, <2>3 DEF EnsurePushEndpoint
<1>4. CASE SetPushEndpointArn(c)
  <2>1. CASE UNCHANGED contact /\ Note(c, {"push failed"}, "sent")
    <3>1. ~At(c, "idle") /\ UNCHANGED <<busVars, crashes>>
      BY <1>4 DEF SetPushEndpointArn, At
    <3>2. QED BY <1>n, <2>1, <3>1
  <2>2. CASE /\ contact' = [contact EXCEPT !.pushEndpointArn = d.endpoint]
             /\ Goto(c, "push send")
    <3>1. d.endpoint \in Devices /\ d.read.pushToken # None /\ contact.pushToken # None
      BY <1>0, <1>4 DEF Sound, SetPushEndpointArn, At
    <3>2. Reachable' /\ contact'.pushToken = contact.pushToken
      BY <1>0, <2>2, <3>1 DEF Reachable, ContactType
    <3>3. dispatch' = [dispatch EXCEPT ![c] =
                         [@ EXCEPT !.pc = "push send", !.endpoint = d.endpoint]]
      BY <1>0, <2>2 DEF Goto, NotifyInv, Shape
    <3>4. At(c, "endpoint") /\ UNCHANGED busVars BY <1>4 DEF SetPushEndpointArn
    <3>5. QED BY <3>1, <3>2, <3>3, <3>4, MoveSound
  <2>3. QED BY <1>4, <2>1, <2>2 DEF SetPushEndpointArn
<1>5. CASE SendPush(c)
  <2>1. ~At(c, "idle") BY <1>5 DEF SendPush, At
  <2>2. QED BY <1>5, <1>n, <2>1 DEF SendPush
<1>6. CASE LogPush(c)
  <2>1. ~At(c, "idle") BY <1>6 DEF LogPush, At
  <2>2. QED BY <1>6, <1>n, <2>1 DEF LogPush
<1>7. QED BY <1>1, <1>2, <1>3, <1>4, <1>5, <1>6 DEF DispatchStep

(* A consumer that begins or ends a dispatch.                                *)
LEMMA AnotherSound ==
  ASSUME NotifyInv, DueForDeletion', NEW c \in Consumers, NEW d,
         dispatch' = [dispatch EXCEPT ![c] = d], UNCHANGED contact,
         \A g \in Consumers : g # c => batch'[g] = batch[g] /\ current'[g] = current[g],
         Sound(d), d.pc = "idle" \/ (d.event \in batch'[c] /\ current'[c] = NoEvent)
  PROVE  NotifyInv'
<1>1. dispatch'[c] = d /\ \A g \in Consumers : g # c => dispatch'[g] = dispatch[g]
  BY DEF NotifyInv
<1>2. \A g \in Consumers : Sound(dispatch[g])' BY <1>1 DEF NotifyInv, Sound, Shape
<1>3. \A g \in Consumers : Attends(g)' BY <1>1 DEF NotifyInv, Attends
<1>4. dispatch' = [g \in Consumers |-> dispatch'[g]] BY DEF NotifyInv
<1>5. Reachable' BY DEF NotifyInv, Reachable
<1>6. QED BY <1>2, <1>3, <1>4, <1>5 DEF NotifyInv

(* No dispatch is sound.                                                     *)
LEMMA IdleSound == Sound(Idle) /\ Idle.pc = "idle"
BY DEF Sound, Shape, Idle, NoContact, ContactType

(* One step keeps the invariant.                                             *)
LEMMA NotifyStep ==
  ASSUME NotifyInv, [NotifyNext]_notifyVars
  PROVE  NotifyInv'
<1>t. DueForDeletion' BY StepOfBus, DueStep DEF NotifyInv
<1>b. /\ batch = [c \in Consumers |-> batch[c]] /\ current = [c \in Consumers |-> current[c]]
      /\ contact \in ContactType /\ Reachable
  BY DEF NotifyInv, DueForDeletion, TypeOK, Reachable
<1>q. ASSUME UNCHANGED dispatch, Reachable',
             contact.pushToken # None => contact'.pushToken # None,
             \A c \in Consumers : Attends(c)'
      PROVE  NotifyInv'
  <2>1. \A g \in Consumers : Sound(dispatch[g])' BY <1>q DEF NotifyInv, Sound, Shape
  <2>2. dispatch' = [g \in Consumers |-> dispatch'[g]] BY <1>q DEF NotifyInv
  <2>3. QED BY <1>t, <1>q, <2>1, <2>2 DEF NotifyInv
<1>1. CASE UserStep
  <2>1. Reachable' /\ (contact.pushToken # None => contact'.pushToken # None)
    BY <1>1, <1>b, NotificationConstants
    DEF UserStep, UpsertEmail, UpsertPushOptOut, UpsertPushToken, Reachable, ContactType
  <2>2. UNCHANGED <<dispatch, batch, current>>
    BY <1>1 DEF UserStep, UpsertEmail, UpsertPushOptOut, UpsertPushToken, busVars
  <2>3. \A c \in Consumers : Attends(c)' BY <2>2 DEF NotifyInv, Attends
  <2>4. QED BY <1>q, <2>1, <2>2, <2>3
<1>2. ASSUME NEW c \in Consumers, Transport(c) PROVE NotifyInv'
  <2>1. /\ Reachable' /\ UNCHANGED <<dispatch, contact>>
    BY <1>2, <1>b DEF Transport, Reachable
  <2>2. ASSUME NEW g \in Consumers PROVE Attends(g)'
    <3>1. Attends(g) /\ Attends(c) BY DEF NotifyInv
    <3>2. CASE \E S \in SUBSET Events : Receive(c, S)
      BY <1>b, <2>1, <3>1, <3>2 DEF Receive, Attends
    <3>3. CASE Delete(c) \/ DeleteFails(c)
      BY <1>b, <2>1, <3>1, <3>3 DEF Delete, DeleteFails, Attends
    <3>4. QED BY <1>2, <3>2, <3>3 DEF Transport
  <2>3. QED BY <1>q, <2>1, <2>2
<1>3. ASSUME NEW c \in Consumers, DispatchStep(c) PROVE NotifyInv'
  BY <1>t, <1>3, DispatchSound
<1>4. ASSUME NEW c \in Consumers, NEW e \in Events, Begin(c, e) PROVE NotifyInv'
  <2> DEFINE n == [Idle EXCEPT !.pc = EmailOrNext(contact), !.event = e, !.read = contact]
  <2>1. /\ Shape(n) /\ n.pc = EmailOrNext(contact) /\ n.event = e /\ n.read = contact
    BY DEF Shape, Idle
  <2>2. /\ dispatch' = [dispatch EXCEPT ![c] = n] /\ UNCHANGED <<contact, batch, current>>
        /\ e \in batch[c] /\ current[c] = NoEvent
    BY <1>4 DEF Begin, busVars
  <2> HIDE DEF n
  <2>3. EmailOrNext(contact) \in {"email", "push", "sent"}
        /\ (EmailOrNext(contact) = "push" => contact.pushToken # None)
    BY DEF EmailOrNext, PushOrEnd, PushTo
  <2>4. Sound(n) BY <1>b, <2>1, <2>3 DEF Sound, Reachable
  <2>5. QED BY <1>t, <2>1, <2>2, <2>4, AnotherSound
<1>5. ASSUME NEW c \in Consumers, NEW e \in Events, Return(c, e) PROVE NotifyInv'
  BY <1>t, <1>b, <1>5, IdleSound, AnotherSound DEF Return, HandleOk
<1>6. ASSUME NEW c \in Consumers, Die(c) PROVE NotifyInv'
  BY <1>t, <1>b, <1>6, IdleSound, AnotherSound DEF Die, Crash
<1>7. ASSUME NEW c \in Consumers, NEW e \in Events, DoNotDispatch(c, e) PROVE NotifyInv'
  <2>1. /\ Reachable' /\ UNCHANGED <<dispatch, contact>> /\ dispatch[c].pc = "idle"
    BY <1>7, <1>b DEF DoNotDispatch, At, Reachable
  <2>2. ASSUME NEW g \in Consumers PROVE Attends(g)'
    BY <1>7, <1>b, <2>1, <2>2 DEF DoNotDispatch, SkipForeign, LeaveInQueue, Attends, NotifyInv
  <2>3. QED BY <1>q, <2>1, <2>2
<1>8. CASE (\E e \in Events : Queue(e)) \/ UNCHANGED notifyVars
  <2>1. UNCHANGED <<dispatch, contact, batch, current>>
    BY <1>8 DEF Queue, Deliver, Reappear, notifyVars, busVars
  <2>2. Reachable' BY <1>b, <2>1 DEF Reachable
  <2>3. \A c \in Consumers : Attends(c)' BY <2>1 DEF NotifyInv, Attends
  <2>4. QED BY <1>q, <2>1, <2>2, <2>3
<1>9. QED
  BY <1>1, <1>2, <1>3, <1>4, <1>5, <1>6, <1>7, <1>8 DEF NotifyNext, ConsumerStep

(* At the start nobody dispatches, and the user has no device.               *)
LEMMA NotifyInitSound == NotifyInit => NotifyInv
<1> SUFFICES ASSUME NotifyInit PROVE NotifyInv OBVIOUS
<1>1. DueForDeletion BY DueInit DEF NotifyInit
<1>2. Reachable BY DEF NotifyInit, Reachable, NoContact, ContactType
<1>3. \A c \in Consumers : Sound(dispatch[c]) /\ Attends(c)
  BY IdleSound DEF NotifyInit, Attends
<1>4. QED BY <1>1, <1>2, <1>3 DEF NotifyInit, NotifyInv

(* Type correctness of notification-service: a dispatch belongs to a message *)
(* that is still in its consumer's batch, however consumers die and restart; *)
(* and a push always has an endpoint to go to, although the user changes the *)
(* preferences while it is under way.                                        *)
THEOREM NotifyTypeCorrect == NotifySpec => []NotifyTypeOK
<1>1. NotifyInv => NotifyTypeOK
  BY NotificationConstants
  DEF NotifyInv, DueForDeletion, Reachable, Sound, Attends, NotifyTypeOK, At
<1>2. QED BY NotifyInitSound, NotifyStep, <1>1, PTL DEF NotifySpec
=============================================================================
