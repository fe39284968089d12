---------------------------- MODULE Notification ----------------------------
(***************************************************************************)
(* notification-service: the replicas' consumers of one queue (EventBus),   *)
(* whose handler is DispatchService.send, and the user's contact            *)
(* preference, which the user changes at any time.  A dispatch fans out to  *)
(* email, then push; whatever fails in a channel stays in that channel.     *)
(* All events are of one user.                                              *)
(***************************************************************************)
EXTENDS EventBus

CONSTANTS Devices,    \* push tokens; an endpoint is named by its device
          None,
          MaxCrashes  \* bound: consumers that die

ASSUME NotificationConstants == None \notin Devices /\ MaxCrashes \in Nat

VARIABLES contact,   \* the ContactPreference row
          dispatch,  \* per consumer: the locals of send
          crashes

notifyVars == <<busVars, contact, dispatch, crashes>>

(* `email`: there is an address, and no opt-out.                             *)
ContactType == [email : BOOLEAN, pushOptOut : BOOLEAN,
                pushToken : Devices \union {None},
                pushEndpointArn : Devices \union {None}]

NoContact == [email |-> FALSE, pushOptOut |-> FALSE, pushToken |-> None,
              pushEndpointArn |-> None]

Idle == [pc |-> "idle", event |-> NoEvent, read |-> NoContact,
         endpoint |-> None, dispatched |-> {}]

NotifyInit ==
  /\ Init
  /\ contact = NoContact
  /\ dispatch = [c \in Consumers |-> Idle]
  /\ crashes = 0

-----------------------------------------------------------------------------
(* POST /notify/preferences: the fields that are given replace those of the  *)
(* row.  The endpoint is not among them.                                     *)

UpsertEmail ==
  /\ contact' = [contact EXCEPT !.email = ~@]
  /\ UNCHANGED <<busVars, dispatch, crashes>>

UpsertPushOptOut ==
  /\ contact' = [contact EXCEPT !.pushOptOut = ~@]
  /\ UNCHANGED <<busVars, dispatch, crashes>>

UpsertPushToken(d) ==
  /\ contact' = [contact EXCEPT !.pushToken = d]
  /\ UNCHANGED <<busVars, dispatch, crashes>>

-----------------------------------------------------------------------------
(* DispatchService.send.                                                     *)

At(c, pc) == dispatch[c].pc = pc
Goto(c, pc) == dispatch' = [dispatch EXCEPT ![c].pc = pc]

PushTo(r) == r.pushToken # None /\ ~r.pushOptOut

(* The next channel with contact info, or the end.                           *)
PushOrEnd(r) == IF PushTo(r) THEN "push" ELSE "sent"
EmailOrNext(r) == IF r.email THEN "email" ELSE PushOrEnd(r)

Begin(c, e) ==
  /\ At(c, "idle")
  /\ e \in batch[c] /\ current[c] = NoEvent /\ Kind[e] = "subscribed"
  /\ dispatch' = [dispatch EXCEPT ![c] =
       [Idle EXCEPT !.pc = EmailOrNext(contact), !.event = e, !.read = contact]]
  /\ UNCHANGED <<busVars, contact, crashes>>

(* One channel's outcome: what was done in it is noted, and so is where the  *)
(* dispatch goes on.                                                         *)
Note(c, what, pc) ==
  dispatch' = [dispatch EXCEPT ![c].dispatched = @ \union what, ![c].pc = pc]

(* Mutant: an email that fails ends the dispatch.                            *)
SendEmailOrEnd(c) ==
  /\ At(c, "email")
  /\ \/ Note(c, {"email sent"}, "log email")
     \/ Note(c, {}, "sent")
  /\ UNCHANGED <<busVars, contact, crashes>>

SendEmail(c) ==
  /\ At(c, "email")
  /\ \/ Note(c, {"email sent"}, "log email")
     \/ Note(c, {"email failed"}, PushOrEnd(dispatch[c].read))
  /\ UNCHANGED <<busVars, contact, crashes>>

(* recordSent: the log entry, then NotificationSent; either may fail, which  *)
(* makes the result a failure although the email was sent.                   *)
LogEmail(c) ==
  /\ At(c, "log email")
  /\ \E what \in SUBSET {"email logged"} : Note(c, what, PushOrEnd(dispatch[c].read))
  /\ UNCHANGED <<busVars, contact, crashes>>

(* A cached endpoint is used as it is.                                       *)
EnsurePushEndpoint(c) ==
  /\ At(c, "push")
  /\ LET r == dispatch[c].read
     IN \/ /\ r.pushEndpointArn # None
           /\ dispatch' = [dispatch EXCEPT ![c].pc = "push send",
                                           ![c].endpoint = r.pushEndpointArn]
        \/ /\ r.pushEndpointArn = None
           /\ dispatch' = [dispatch EXCEPT ![c].pc = "endpoint",
                                           ![c].endpoint = r.pushToken]
        \/ Note(c, {"push failed"}, "sent")
  /\ UNCHANGED <<busVars, contact, crashes>>

SetPushEndpointArn(c) ==
  /\ At(c, "endpoint")
  /\ \/ /\ contact' = [contact EXCEPT !.pushEndpointArn = dispatch[c].endpoint]
        /\ Goto(c, "push send")
     \/ UNCHANGED contact /\ Note(c, {"push failed"}, "sent")
  /\ UNCHANGED <<busVars, crashes>>

(* Mutant: the log entry is written first.                                   *)
LogBeforeSend(c) ==
  /\ At(c, "push send")
  /\ Note(c, {"push logged"}, "log push") \/ Note(c, {"push failed"}, "sent")
  /\ UNCHANGED <<busVars, contact, crashes>>

SendPush(c) ==
  /\ At(c, "push send")
  /\ \/ Note(c, {"push sent"}, "log push")
     \/ Note(c, {"push failed"}, "sent")
  /\ UNCHANGED <<busVars, contact, crashes>>

LogPush(c) ==
  /\ At(c, "log push")
  /\ \E what \in SUBSET {"push logged"} : Note(c, what, "sent")
  /\ UNCHANGED <<busVars, contact, crashes>>

DispatchStep(c) ==
  \/ SendEmail(c) \/ LogEmail(c) \/ EnsurePushEndpoint(c)
  \/ SetPushEndpointArn(c) \/ SendPush(c) \/ LogPush(c)

-----------------------------------------------------------------------------
(* The consumer's loop: its handler returns when the dispatch is through.    *)

Return(c, e) ==
  /\ At(c, "sent") /\ dispatch[c].event = e
  /\ HandleOk(c, e)
  /\ dispatch' = [dispatch EXCEPT ![c] = Idle]
  /\ UNCHANGED <<contact, crashes>>

(* findOrNull throws, or the message is not for the handler.                 *)
DoNotDispatch(c, e) ==
  /\ At(c, "idle") /\ (SkipForeign(c, e) \/ LeaveInQueue(c, e))
  /\ UNCHANGED <<contact, dispatch, crashes>>

Transport(c) ==
  /\ (\E S \in SUBSET Events : Receive(c, S)) \/ Delete(c) \/ DeleteFails(c)
  /\ UNCHANGED <<contact, dispatch, crashes>>

Die(c) ==
  /\ crashes < MaxCrashes /\ crashes' = crashes + 1
  /\ Crash(c)
  /\ dispatch' = [dispatch EXCEPT ![c] = Idle]
  /\ UNCHANGED contact

ConsumerStep(c) ==
  \/ Transport(c) \/ DispatchStep(c)
  \/ \E e \in Events : Begin(c, e) \/ Return(c, e) \/ DoNotDispatch(c, e)

Queue(e) == /\ Deliver(e) \/ Reappear(e)
            /\ UNCHANGED <<contact, dispatch, crashes>>

UserStep == UpsertEmail \/ UpsertPushOptOut \/ \E d \in Devices : UpsertPushToken(d)

NotifyNext == \/ UserStep
              \/ \E c \in Consumers : ConsumerStep(c) \/ Die(c)
              \/ \E e \in Events : Queue(e)

NotifySpec == NotifyInit /\ [][NotifyNext]_notifyVars

(* As for the bus: SQS shows a hidden message again and does not withhold a  *)
(* visible one for ever, and the contact is not unreadable for ever.  Every  *)
(* call that a dispatch makes ends, one way or the other.                    *)
NotifyFairness ==
  /\ \A e \in Subscribed : WF_notifyVars(Reappear(e) /\ Queue(e))
  /\ \A c \in Consumers :
       /\ WF_notifyVars(ConsumerStep(c))
       /\ \A e \in Subscribed :
            /\ SF_notifyVars(\E S \in SUBSET Events :
                               e \in S /\ Receive(c, S) /\ Transport(c))
            /\ SF_notifyVars(Begin(c, e))

NotifyFairSpec == NotifySpec /\ NotifyFairness

-----------------------------------------------------------------------------
(* The variables have their types; a dispatch belongs to a message of its    *)
(* consumer's batch, and an endpoint to a device that was registered.        *)
NotifyTypeOK ==
  /\ TypeOK
  /\ contact \in ContactType
  /\ contact.pushEndpointArn # None => contact.pushToken # None
  /\ \A c \in Consumers :
       /\ dispatch[c].read \in ContactType
       /\ ~At(c, "idle") => dispatch[c].event \in batch[c] /\ current[c] = NoEvent
       /\ At(c, "push send") => dispatch[c].endpoint # None

(* "each channel's failure is caught and recorded individually": when the    *)
(* handler returns, which takes the message out of the queue for good, every *)
(* channel the user could be reached on when the dispatch began was tried.   *)
EveryChannelTried ==
  \A c \in Consumers : At(c, "sent") =>
    /\ dispatch[c].read.email =>
         \E what \in {"email sent", "email failed"} : what \in dispatch[c].dispatched
    /\ PushTo(dispatch[c].read) =>
         \E what \in {"push sent", "push failed"} : what \in dispatch[c].dispatched

(* The log, from which one learns later what the user was told, has no entry *)
(* for what was not sent.                                                    *)
LoggedIsSent ==
  \A c \in Consumers :
    /\ "email logged" \in dispatch[c].dispatched => "email sent" \in dispatch[c].dispatched
    /\ "push logged" \in dispatch[c].dispatched => "push sent" \in dispatch[c].dispatched

(* A push goes to the device that was registered last.                       *)
PushReachesLastDevice ==
  \A c \in Consumers :
    At(c, "push send") => dispatch[c].endpoint = dispatch[c].read.pushToken
=============================================================================
