------------------------------ MODULE Workflow ------------------------------
(***************************************************************************)
(* orchestrator-service: the workflow_state row of one user and one day,    *)
(* and the requests about it -- scout, decision, finalize -- each a         *)
(* sequence of awaits.  Every request reads the row once, at its start, and *)
(* updates it by id, whatever the row has become.                           *)
(*                                                                          *)
(* The menu, the AI agent's ranking and the coupon service are external: a  *)
(* menu is any set of items, a ranking any part of one.  Items are numbered *)
(* by their matchScore.                                                     *)
(***************************************************************************)
EXTENDS Integers, Sequences, FiniteSetsExt

CONSTANTS Items,      \* the items a menu may offer
          NoItem,
          Handlers,   \* requests served at the same time
          Overlap,    \* may requests about the day overlap?
          Faults,     \* what goes wrong, see FaultKinds
          MaxOrders   \* bound: orders explored

FaultKinds == {"die",       \* a handler ends between two awaits
               "gather",    \* a call that a proposal is made from fails
               "upstream",  \* a call that asks for an effect fails, served or not
               "publish",   \* an event is not accepted; the failure is logged
               "cron"}      \* the scheduler dies in a pass, see Scheduler

ASSUME WorkflowConstants ==
  /\ Items \subseteq Nat \ {0} /\ IsFiniteSet(Items) /\ NoItem = 0
  /\ Overlap \in BOOLEAN /\ Faults \subseteq FaultKinds /\ MaxOrders \in Nat

VARIABLES row,        \* workflow_state
          task,       \* per request: its await, what it read, what it will save
          orders,     \* the items order-execution was given, in order
          approvals,  \* items the user has approved
          rollovers,  \* budget rollovers asked of escrow directly
          published,  \* published event types
          overwritten \* history: was a row saved over that its request had not seen?

workflowVars == <<row, task, orders, approvals, rollovers, published, overwritten>>

Cycle == INSTANCE MealCycle
         WITH phase <- row.phase, offered <- row.offered,
              refused <- row.rejected, ordered <- orders

NoRow == [phase |-> "NONE", offered |-> NoItem, ranked |-> {}, rejected |-> {}]

Proposal(i, ranked, rejected) ==
  [phase |-> "AWAITING_APPROVAL", offered |-> i,
   ranked |-> ranked, rejected |-> rejected]

(* A request that has been answered; "none" before there was any.            *)
Answered(how) == [pc |-> "idle", answer |-> how, read |-> NoRow, save |-> NoRow]

Pcs == {"idle", "scout_upsert", "scout_gather", "save_proposal", "publish_proposal",
        "approve_save", "execute_order", "executing_save", "publish_approved",
        "skip_save", "rollover", "publish_skipped", "swap_gather"}

EventTypes == {"ScoutCompleted", "MenuProposed", "MealApproved", "MealSkipped"}

Init == /\ row = NoRow /\ orders = <<>> /\ approvals = {}
        /\ rollovers = 0 /\ published = {} /\ overwritten = FALSE
        /\ task = [h \in Handlers |-> Answered("none")]

Idle(h) == task[h].pc = "idle"
At(h, pc) == task[h].pc = pc

Goto(h, pc) == task' = [task EXCEPT ![h].pc = pc]
Reply(h, how) == task' = [task EXCEPT ![h] = Answered(how)]

Failing(kind) == kind \in Faults

(* A request about the day arrives; it reads the row and either goes on to   *)
(* pc or is answered at once.                                                *)
Arrives(h) == Idle(h) /\ (Overlap \/ \A g \in Handlers : Idle(g))

Read(h, pc) ==
  task' = [task EXCEPT ![h] = [Answered("none") EXCEPT !.pc = pc, !.read = row]]

(* Mutant: what was rejected is offered again.                               *)
CandidatesAgain(menu, ranked, rejected) == menu \intersect ranked

(* selectNextCandidate: the best ranked item that is on the menu and was not *)
(* rejected.                                                                 *)
Candidates(menu, ranked, rejected) == (menu \intersect ranked) \ rejected

Propose(h, i, ranked, rejected) ==
  task' = [task EXCEPT ![h] = [pc |-> "save_proposal", answer |-> @.answer, read |-> @.read,
                               save |-> Proposal(i, ranked, rejected)]]

effects == <<orders, approvals, rollovers, published>>

-----------------------------------------------------------------------------
(* runScoutPhase                                                             *)

Scout(h) ==
  /\ Arrives(h)
  /\ IF row.phase \in {"NONE", "SCOUTING"} THEN Read(h, "scout_upsert")
                                           ELSE Reply(h, "error")
  /\ UNCHANGED <<row, overwritten, effects>>

Opened == [NoRow EXCEPT !.phase = "SCOUTING"]

(* Mutant: the upsert also puts the phase back to where a scout starts.      *)
ScoutUpsertReopening(h) ==
  /\ At(h, "scout_upsert")
  /\ row' = Opened
  /\ Goto(h, "scout_gather") /\ UNCHANGED <<overwritten, effects>>

(* The upsert creates the row or changes its addresses, never its phase.     *)
ScoutUpsert(h) ==
  /\ At(h, "scout_upsert")
  /\ row' = IF row.phase = "NONE" THEN Opened ELSE row
  /\ Goto(h, "scout_gather") /\ UNCHANGED <<overwritten, effects>>

(* The row as a request knows it: what it read, with what it has saved since. *)
(* A save over any other row is an overwriting one.                          *)
Known(h) ==
  IF task[h].read.phase = "NONE" THEN Opened
  ELSE IF At(h, "executing_save") THEN [task[h].read EXCEPT !.phase = "APPROVED"]
  ELSE task[h].read

Overwrites(h) == overwritten' = (overwritten \/ row # Known(h))

(* Budget, profile, menu, ranking and cart; without a candidate: 409.        *)
ScoutGather(h) ==
  /\ At(h, "scout_gather")
  /\ \/ \E menu \in SUBSET Items : \E ranked \in SUBSET menu :
          IF Candidates(menu, ranked, {}) = {} THEN Reply(h, "error")
          ELSE Propose(h, Max(Candidates(menu, ranked, {})), ranked, {})
     \/ Failing("gather") /\ Reply(h, "error")
  /\ UNCHANGED <<row, overwritten, effects>>

(* The unconditional update with which a scout and a swap end.               *)
SaveProposal(h) ==
  /\ At(h, "save_proposal")
  /\ row' = task[h].save /\ Overwrites(h)
  /\ Goto(h, "publish_proposal") /\ UNCHANGED effects

(* Each publish, and the notification, is wrapped: none fails the request.   *)
Publish(h, pc, types) ==
  /\ At(h, pc)
  /\ \E lost \in SUBSET types :
       /\ lost = {} \/ Failing("publish")
       /\ published' = published \union (types \ lost)
  /\ Reply(h, "ok") /\ UNCHANGED <<row, overwritten, orders, approvals, rollovers>>

(* A first proposal also reports the scout as completed.                     *)
PublishProposal(h) ==
  Publish(h, "publish_proposal",
          IF task[h].read.phase = "AWAITING_APPROVAL" THEN {"MenuProposed"}
          ELSE {"ScoutCompleted", "MenuProposed"})

-----------------------------------------------------------------------------
(* handleUserDecision                                                        *)

Undecided == row.phase = "AWAITING_APPROVAL"

Decide(h, pc) ==
  /\ Arrives(h)
  /\ IF Undecided THEN Read(h, pc) ELSE Reply(h, "error")
  /\ UNCHANGED <<row, overwritten, orders, rollovers, published>>

ApproveDecision(h) ==
  /\ Decide(h, "approve_save")
  /\ approvals' = IF Undecided THEN approvals \union {row.offered} ELSE approvals

SkipDecision(h) == Decide(h, "skip_save") /\ UNCHANGED approvals
SwapDecision(h) == Decide(h, "swap_gather") /\ UNCHANGED approvals

SetPhase(h, pc, phase, next) ==
  /\ At(h, pc) /\ row' = [row EXCEPT !.phase = phase] /\ Overwrites(h)
  /\ Goto(h, next) /\ UNCHANGED effects

ApproveSave(h) == SetPhase(h, "approve_save", "APPROVED", "execute_order")

(* Mutant: a failed order execution reopens the day for another decision.    *)
ExecuteOrderReopening(h) ==
  /\ At(h, "execute_order")
  /\ \/ /\ Len(orders) < MaxOrders /\ orders' = Append(orders, task[h].read.offered)
        /\ \/ Goto(h, "executing_save") /\ UNCHANGED row
           \/ /\ Failing("upstream") /\ Reply(h, "error")
              /\ row' = [row EXCEPT !.phase = "AWAITING_APPROVAL"]
     \/ Failing("upstream") /\ Reply(h, "error") /\ UNCHANGED <<orders, row>>
  /\ UNCHANGED <<overwritten, approvals, rollovers, published>>

(* The order is for the cart this request read.  An error answer, or none    *)
(* within 5 seconds, leaves the row APPROVED, the order created or not.      *)
ExecuteOrder(h) ==
  /\ At(h, "execute_order")
  /\ \/ /\ Len(orders) < MaxOrders /\ orders' = Append(orders, task[h].read.offered)
        /\ Goto(h, "executing_save") \/ (Failing("upstream") /\ Reply(h, "error"))
     \/ Failing("upstream") /\ Reply(h, "error") /\ UNCHANGED orders
  /\ UNCHANGED <<row, overwritten, approvals, rollovers, published>>

ExecutingSave(h) == SetPhase(h, "executing_save", "EXECUTING", "publish_approved")

PublishApproved(h) == Publish(h, "publish_approved", {"MealApproved"})

SkipSave(h) == SetPhase(h, "skip_save", "SKIPPED", "rollover")

(* escrow.rollover is not wrapped: its failure fails the request, after the  *)
(* row has been saved.                                                       *)
Rollover(h) ==
  /\ At(h, "rollover")
  /\ \/ /\ rollovers' = rollovers + 1
        /\ Goto(h, "publish_skipped") \/ (Failing("upstream") /\ Reply(h, "error"))
     \/ Failing("upstream") /\ Reply(h, "error") /\ UNCHANGED rollovers
  /\ UNCHANGED <<row, overwritten, orders, approvals, published>>

PublishSkipped(h) == Publish(h, "publish_skipped", {"MealSkipped"})

(* Mutant: the item that is swapped away is not remembered.                  *)
SwapForgetting(h) ==
  /\ At(h, "swap_gather")
  /\ \/ \E menu \in SUBSET Items :
          LET read == task[h].read
              found == Candidates(menu, read.ranked, read.rejected \union {read.offered})
          IN  IF found = {} THEN Goto(h, "skip_save")
              ELSE Propose(h, Max(found), read.ranked, read.rejected)
     \/ Failing("gather") /\ Reply(h, "error")
  /\ UNCHANGED <<row, overwritten, effects>>

(* When nothing is left to offer, a swap becomes a skip.                     *)
SwapGather(h) ==
  /\ At(h, "swap_gather")
  /\ \/ \E menu \in SUBSET Items :
          LET read == task[h].read
              rejected == read.rejected \union {read.offered}
              found == Candidates(menu, read.ranked, rejected)
          IN  IF found = {} THEN Goto(h, "skip_save")
              ELSE Propose(h, Max(found), read.ranked, rejected)
     \/ Failing("gather") /\ Reply(h, "error")
  /\ UNCHANGED <<row, overwritten, effects>>

-----------------------------------------------------------------------------
(* Mutant: an undecided meal is approved, not skipped.                       *)
FinalizeApproving(h) ==
  /\ Arrives(h)
  /\ IF Undecided THEN Read(h, "approve_save") ELSE Reply(h, "ok")
  /\ UNCHANGED <<row, overwritten, effects>>

(* finalizeIfPending: the same skip, but no error when there is nothing to   *)
(* decide.                                                                   *)
Finalize(h) ==
  /\ Arrives(h)
  /\ IF Undecided THEN Read(h, "skip_save") ELSE Reply(h, "ok")
  /\ UNCHANGED <<row, overwritten, effects>>

(* The process dies, or a database statement fails.                          *)
Die(h) == /\ Failing("die") /\ ~Idle(h)
          /\ Reply(h, "error") /\ UNCHANGED <<row, overwritten, effects>>

Step(h) ==
  \/ ScoutUpsert(h) \/ ScoutGather(h) \/ SaveProposal(h) \/ PublishProposal(h)
  \/ ApproveSave(h) \/ ExecuteOrder(h) \/ ExecutingSave(h) \/ PublishApproved(h)
  \/ SkipSave(h) \/ Rollover(h) \/ PublishSkipped(h) \/ SwapGather(h)

UserDecision(h) == ApproveDecision(h) \/ SkipDecision(h) \/ SwapDecision(h)

Next == \E h \in Handlers :
          \/ Scout(h) \/ UserDecision(h) \/ Finalize(h) \/ Step(h) \/ Die(h)

Spec == Init /\ [][Next]_workflowVars

-----------------------------------------------------------------------------
(* The variables have their types, and a proposal always names an item that  *)
(* was ranked and has not been rejected.                                     *)
Row == [phase : Cycle!Phases, offered : Items \union {NoItem},
        ranked : SUBSET Items, rejected : SUBSET Items]

TypeOK ==
  /\ row \in Row
  /\ task \in [Handlers -> [pc : Pcs, answer : {"none", "ok", "error"},
                            read : Row, save : Row]]
  /\ orders \in Seq(Items) /\ Len(orders) <= MaxOrders
  /\ approvals \subseteq Items /\ rollovers \in Nat
  /\ published \subseteq EventTypes /\ overwritten \in BOOLEAN
  /\ \A r \in {row} \union {task[h].read : h \in Handlers} :
       r.phase = "AWAITING_APPROVAL" => r.offered \in r.ranked \ r.rejected

(* The day is a MealCycle: it passes through its phases in their order, a    *)
(* decided day is never reopened, a refused item is never offered again, and *)
(* the meal that is ordered is the one that was approved -- once.  So it is  *)
(* when requests about the day take turns.                                   *)
IsMealCycle == Cycle!Spec

(* However requests overlap, nothing but an overwriting save can end this: a *)
(* step is one of MealCycle's unless some save has gone over a row that its  *)
(* request had not seen.                                                     *)
MealCycleUnlessOverwritten ==
  Cycle!Init /\ [][Cycle!Next \/ overwritten']_(Cycle!vars)

(* Money moves for the day one way only: a day whose budget is rolled over   *)
(* is a day without an order, whatever fails after the decision.             *)
RolledOverOrOrdered == rollovers = 0 \/ orders = <<>>

(* When requests overlap, both happen only if a save went over a row that    *)
(* its request had not seen, as when the user's decision and finalize both   *)
(* read the same undecided day.                                              *)
BothOnlyIfOverwritten == overwritten \/ RolledOverOrOrdered

(* "Explicit state machine for a single day's meal cycle": no step takes the *)
(* row out of a phase except along TRANSITIONS (scouting passes through      *)
(* OPTIMIZING).                                                              *)
FollowsStateMachine ==
  [][row'.phase # row.phase /\ row.phase # "NONE" =>
       \/ Cycle!CanTransition(row.phase, row'.phase)
       \/ row.phase = "SCOUTING" /\ row'.phase = "AWAITING_APPROVAL"]_workflowVars

(* "never auto-APPROVE": only an item the user has approved while it was     *)
(* offered is ordered, even if the scheduler's requests race with the user's *)
(* and a swap replaces the offer in between.                                 *)
OrderedIsApproved == \A n \in DOMAIN orders : orders[n] \in approvals
=============================================================================
