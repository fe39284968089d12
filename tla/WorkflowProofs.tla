--------------------------- MODULE WorkflowProofs ---------------------------
(***************************************************************************)
(* Theorems about Workflow and Scheduler, for any finite menu, any set of   *)
(* requests and any faults, however the requests overlap.                   *)
(***************************************************************************)
EXTENDS Scheduler, SequenceTheorems, FiniteSetTheorems, WellFoundedInduction, TLAPS

(* The transitions of a day that the code takes.                             *)
LEMMA Trans ==
  /\ Cycle!CanTransition("SCOUTING", "OPTIMIZING")
  /\ Cycle!CanTransition("OPTIMIZING", "AWAITING_APPROVAL")
  /\ Cycle!CanTransition("AWAITING_APPROVAL", "AWAITING_APPROVAL")
  /\ Cycle!CanTransition("AWAITING_APPROVAL", "APPROVED")
  /\ Cycle!CanTransition("AWAITING_APPROVAL", "SKIPPED")
  /\ Cycle!CanTransition("APPROVED", "EXECUTING")
BY DEF Cycle!CanTransition, Cycle!Transitions

(* The phases are those TRANSITIONS names.                                   *)
LEMMA PhaseSet ==
  Cycle!Phases = {"NONE", "SCOUTING", "OPTIMIZING", "AWAITING_APPROVAL",
                  "APPROVED", "EXECUTING", "COMPLETE", "SKIPPED"}
BY DEF Cycle!Phases, Cycle!Transitions

(* A finite set of numbers has a greatest element: a smallest subset without *)
(* one would have one as soon as one of its elements is taken away.          *)
LEMMA HasMax ==
  ASSUME NEW S, IsFiniteSet(S), S \subseteq Nat, S # {}
  PROVE  Max(S) \in S /\ \A y \in S : Max(S) >= y
<1> DEFINE Bad == {T \in SUBSET S : T # {} /\ ~ \E x \in T : \A y \in T : x >= y}
           R == StrictSubsetOrdering(S)
<1>1. IsWellFoundedOn(R, FiniteSubsetsOf(S)) BY FS_StrictSubsetOrderingWellFounded
<1>2. Bad \subseteq FiniteSubsetsOf(S) BY FS_Subset DEF FiniteSubsetsOf
<1>3. ASSUME Bad # {} PROVE FALSE
  <2>1. PICK T \in Bad : \A U \in Bad : <<U, T>> \notin R
    <3> HIDE DEF R, Bad
    <3>1. QED BY <1>1, <1>2, <1>3, WFMin
  <2>2. PICK x \in T : TRUE OBVIOUS
  <2>3. T \ {x} \notin Bad BY <2>1, <2>2 DEF StrictSubsetOrdering
  <2>4. CASE T \ {x} = {} BY <2>2, <2>4
  <2>5. CASE T \ {x} # {}
    <3>1. PICK m \in T \ {x} : \A y \in T \ {x} : m >= y BY <2>3, <2>5
    <3>2. CASE m >= x BY <2>1, <3>1, <3>2
    <3>3. CASE x >= m BY <2>1, <3>1, <3>3
    <3>4. QED BY <3>1, <3>2, <3>3
  <2>6. QED BY <2>4, <2>5
<1>4. S \notin Bad BY <1>3
<1>5. QED BY <1>4 DEF Max

-----------------------------------------------------------------------------
(* Types, for any overlap and any faults. A request is a record of four      *)
(* fields.                                                                   *)
Shape ==
  /\ task = [h \in Handlers |-> task[h]]
  /\ \A h \in Handlers :
       task[h] = [pc |-> task[h].pc, answer |-> task[h].answer,
                  read |-> task[h].read, save |-> task[h].save]

(* A step of one request leaves the others where they are.                   *)
Rest(h) == \A g \in Handlers : g # h => task'[g] = task[g]

(* The four ways in which a step changes the requests.                       *)
LEMMA Moves ==
  ASSUME Shape, NEW h \in Handlers
  PROVE  /\ \A pc : Goto(h, pc) =>
              Shape' /\ Rest(h) /\ task'[h] = [pc |-> pc, answer |-> task[h].answer,
                               read |-> task[h].read, save |-> task[h].save]
         /\ \A how : Reply(h, how) => Shape' /\ Rest(h) /\ task'[h] = Answered(how)
         /\ \A pc : Read(h, pc) =>
              Shape' /\ Rest(h) /\ task'[h] = [pc |-> pc, answer |-> "none", read |-> row, save |-> NoRow]
         /\ \A i, ranked, rejected : Propose(h, i, ranked, rejected) =>
              Shape' /\ Rest(h) /\ task'[h] = [pc |-> "save_proposal", answer |-> task[h].answer,
                               read |-> task[h].read, save |-> Proposal(i, ranked, rejected)]
<1>1. ASSUME NEW pc, Goto(h, pc)
      PROVE  Shape' /\ Rest(h) /\ task'[h] = [pc |-> pc, answer |-> task[h].answer,
                               read |-> task[h].read, save |-> task[h].save]
  BY <1>1 DEF Shape, Goto, Rest
<1>2. ASSUME NEW how, Reply(h, how) PROVE Shape' /\ Rest(h) /\ task'[h] = Answered(how)
  BY <1>2 DEF Shape, Reply, Answered, Rest
<1>3. ASSUME NEW pc, Read(h, pc)
      PROVE  Shape' /\ Rest(h) /\ task'[h] = [pc |-> pc, answer |-> "none", read |-> row, save |-> NoRow]
  BY <1>3 DEF Shape, Read, Answered, Rest
<1>4. ASSUME NEW i, NEW ranked, NEW rejected, Propose(h, i, ranked, rejected)
      PROVE  Shape' /\ Rest(h) /\ task'[h] = [pc |-> "save_proposal", answer |-> task[h].answer,
                               read |-> task[h].read, save |-> Proposal(i, ranked, rejected)]
  BY <1>4 DEF Shape, Propose, Rest
<1>5. QED BY <1>1, <1>2, <1>3, <1>4

(* What a request is: where it is, how it ended, what it read and what it    *)
(* will save.                                                                *)
Request == [pc : Pcs, answer : {"none", "ok", "error"}, read : Row, save : Row]

(* A row that awaits approval offers an item that was ranked and not         *)
(* rejected.                                                                 *)
GoodRow(r) ==
  r \in Row /\ (r.phase = "AWAITING_APPROVAL" => r.offered \in r.ranked \ r.rejected)

(* A request works from such a row, and saves one.                           *)
GoodRequest(q) ==
  /\ q \in Request /\ GoodRow(q.read)
  /\ q.pc \in {"approve_save", "execute_order", "swap_gather"} =>
       q.read.phase = "AWAITING_APPROVAL"
  /\ q.pc = "save_proposal" => GoodRow(q.save)

(* The inductive form of TypeOK: what will be saved is as good as what is.   *)
TypeInv ==
  /\ Shape /\ GoodRow(row) /\ \A h \in Handlers : GoodRequest(task[h])
  /\ orders \in Seq(Items) /\ Len(orders) <= MaxOrders
  /\ approvals \subseteq Items /\ rollovers \in Nat /\ published \subseteq EventTypes
  /\ overwritten \in BOOLEAN

(* TypeInv says what TypeOK says.                                            *)
LEMMA TypeImplied == TypeInv => TypeOK
<1> SUFFICES ASSUME TypeInv PROVE TypeOK OBVIOUS
<1> USE DEF TypeInv
<1>1. task \in [Handlers -> Request]
  BY DEF Shape, GoodRequest
<1>2. \A r \in {row} \union {task[h].read : h \in Handlers} : GoodRow(r)
  BY DEF GoodRequest
<1>3. QED BY <1>1, <1>2 DEF TypeOK, GoodRow, Request

(* The absent row is a row.                                                  *)
LEMMA NoRowGood == NoRow \in Row /\ GoodRow(NoRow)
BY PhaseSet DEF NoRow, GoodRow, Row

(* selectNextCandidate picks an item of the menu that was ranked and not     *)
(* rejected.                                                                 *)
LEMMA ProposalGood ==
  ASSUME NEW menu \in SUBSET Items, NEW ranked \in SUBSET Items, NEW rejected \in SUBSET Items,
         Candidates(menu, ranked, rejected) # {}
  PROVE  GoodRow(Proposal(Max(Candidates(menu, ranked, rejected)), ranked, rejected))
<1> DEFINE found == Candidates(menu, ranked, rejected)
<1>1. found \subseteq (menu \intersect ranked) \ rejected /\ IsFiniteSet(found) /\ found \subseteq Nat
  BY FS_Subset, WorkflowConstants DEF Candidates
<1>2. Max(found) \in found BY <1>1, HasMax
<1>3. QED BY <1>1, <1>2, PhaseSet DEF GoodRow, Row, Proposal

(* A step of one request need only be checked for that request.              *)
LEMMA SameOthers ==
  ASSUME TypeInv, NEW h \in Handlers, Shape', Rest(h), GoodRequest(task'[h])
  PROVE  Shape' /\ \A g \in Handlers : GoodRequest(task'[g])
BY DEF TypeInv, Rest

(* A request that goes on keeps the row it read.                             *)
LEMMA GotoGood ==
  ASSUME TypeInv, NEW h \in Handlers, NEW pc \in Pcs \ {"save_proposal"}, Goto(h, pc),
         pc \in {"approve_save", "execute_order", "swap_gather"} =>
           task[h].read.phase = "AWAITING_APPROVAL"
  PROVE  Shape' /\ \A g \in Handlers : GoodRequest(task'[g])
<1>1. Shape' /\ Rest(h) /\ task'[h] = [pc |-> pc, answer |-> task[h].answer,
                               read |-> task[h].read, save |-> task[h].save]
  BY Moves DEF TypeInv
<1>2. GoodRequest(task[h]) BY DEF TypeInv
<1>3. GoodRequest(task'[h]) BY <1>1, <1>2 DEF GoodRequest, Request
<1>4. QED BY <1>1, <1>3, SameOthers

(* A request that is answered forgets it.                                    *)
LEMMA ReplyGood ==
  ASSUME TypeInv, NEW h \in Handlers, NEW how \in {"ok", "error"}, Reply(h, how)
  PROVE  Shape' /\ \A g \in Handlers : GoodRequest(task'[g])
<1>1. Shape' /\ Rest(h) /\ task'[h] = Answered(how) BY Moves DEF TypeInv
<1>2. GoodRequest(task'[h]) BY <1>1, NoRowGood DEF GoodRequest, Request, Answered, Pcs
<1>3. QED BY <1>1, <1>2, SameOthers

(* A request that arrives reads a good row.                                  *)
LEMMA ReadGood ==
  ASSUME TypeInv, NEW h \in Handlers, NEW pc \in Pcs \ {"save_proposal"}, Read(h, pc),
         pc \in {"approve_save", "execute_order", "swap_gather"} => Undecided
  PROVE  Shape' /\ \A g \in Handlers : GoodRequest(task'[g])
<1>1. Shape' /\ Rest(h) /\ task'[h] = [pc |-> pc, answer |-> "none", read |-> row, save |-> NoRow]
  BY Moves DEF TypeInv
<1>2. GoodRow(row) BY DEF TypeInv
<1>3. GoodRequest(task'[h])
  BY <1>1, <1>2, NoRowGood DEF GoodRequest, GoodRow, Request, Undecided
<1>4. QED BY <1>1, <1>3, SameOthers

(* A request that will save a proposal will save a good one.                 *)
LEMMA ProposeGood ==
  ASSUME TypeInv, NEW h \in Handlers, NEW i, NEW ranked, NEW rejected,
         Propose(h, i, ranked, rejected), GoodRow(Proposal(i, ranked, rejected))
  PROVE  Shape' /\ \A g \in Handlers : GoodRequest(task'[g])
<1>1. Shape' /\ Rest(h) /\ task'[h] = [pc |-> "save_proposal", answer |-> task[h].answer,
                               read |-> task[h].read, save |-> Proposal(i, ranked, rejected)]
  BY Moves DEF TypeInv
<1>2. GoodRequest(task[h]) BY DEF TypeInv
<1>3. GoodRequest(task'[h])
  BY <1>1, <1>2 DEF GoodRequest, GoodRow, Request, Pcs
<1>4. QED BY <1>1, <1>3, SameOthers

(* A decision leaves the offer of the row as it was.                         *)
LEMMA PhaseGood ==
  ASSUME GoodRow(row), NEW phase \in {"APPROVED", "EXECUTING", "SKIPPED"}
  PROVE  GoodRow([row EXCEPT !.phase = phase])
BY PhaseSet DEF GoodRow, Row

(* A publish changes nothing but the list of published events.               *)
LEMMA PublishGood ==
  ASSUME TypeInv, NEW h \in Handlers, NEW pc, NEW types \in SUBSET EventTypes,
         Publish(h, pc, types)
  PROVE  TypeInv'
BY ReplyGood DEF Publish, TypeInv

(* Whether a save overwrites is a truth value.                               *)
LEMMA OverwritesType == ASSUME NEW h, Overwrites(h) PROVE overwritten' \in BOOLEAN
<1>1. (overwritten \/ row # Known(h)) \in BOOLEAN OBVIOUS
<1>2. QED BY <1>1 DEF Overwrites

(* One step keeps the types.                                                 *)
LEMMA TypeStep ==
  ASSUME TypeInv, [Next]_workflowVars
  PROVE  TypeInv'
<1>1. ASSUME NEW h \in Handlers, Scout(h) PROVE TypeInv'
  BY <1>1, ReadGood, ReplyGood DEF Scout, TypeInv, Pcs, effects
<1>2. ASSUME NEW h \in Handlers, ScoutUpsert(h) PROVE TypeInv'
  <2>1. GoodRow(Opened)
    BY NoRowGood, PhaseSet DEF GoodRow, Row, NoRow, Opened
  <2>2. GoodRow(row') BY <1>2, <2>1 DEF ScoutUpsert, TypeInv
  <2>3. QED BY <1>2, <2>2, GotoGood DEF ScoutUpsert, TypeInv, Pcs, effects
<1>3. ASSUME NEW h \in Handlers, ScoutGather(h) PROVE TypeInv'
  <2>1. Shape' /\ \A g \in Handlers : GoodRequest(task'[g])
    <3>1. CASE \E how \in {"ok", "error"} : Reply(h, how) BY <3>1, ReplyGood
    <3>2. ASSUME NEW menu \in SUBSET Items, NEW ranked \in SUBSET menu,
                 Candidates(menu, ranked, {}) # {},
                 Propose(h, Max(Candidates(menu, ranked, {})), ranked, {})
          PROVE  Shape' /\ \A g \in Handlers : GoodRequest(task'[g])
      BY <3>2, ProposalGood, ProposeGood
    <3>3. QED BY <1>3, <3>1, <3>2 DEF ScoutGather
  <2>2. QED BY <1>3, <2>1 DEF ScoutGather, TypeInv, effects
<1>4. ASSUME NEW h \in Handlers, SaveProposal(h) PROVE TypeInv'
  <2>1. GoodRow(row') BY <1>4 DEF SaveProposal, At, TypeInv, GoodRequest
  <2>2. overwritten' \in BOOLEAN BY <1>4, OverwritesType DEF SaveProposal
  <2>3. QED BY <1>4, <2>1, <2>2, GotoGood DEF SaveProposal, TypeInv, Pcs, effects
<1>5. ASSUME NEW h \in Handlers,
             PublishProposal(h) \/ PublishApproved(h) \/ PublishSkipped(h)
      PROVE TypeInv'
  BY <1>5, PublishGood DEF PublishProposal, PublishApproved, PublishSkipped, EventTypes
<1>6. ASSUME NEW h \in Handlers, ApproveDecision(h) PROVE TypeInv'
  <2>1. approvals' \subseteq Items
    BY <1>6 DEF ApproveDecision, TypeInv, GoodRow, Row, Undecided
  <2>2. QED
    BY <1>6, <2>1, ReadGood, ReplyGood DEF ApproveDecision, Decide, TypeInv, Pcs
<1>7. ASSUME NEW h \in Handlers, SkipDecision(h) \/ SwapDecision(h) PROVE TypeInv'
  BY <1>7, ReadGood, ReplyGood DEF SkipDecision, SwapDecision, Decide, TypeInv, Pcs
<1>8. ASSUME NEW h \in Handlers, ApproveSave(h) PROVE TypeInv'
  <2>1. task[h].read.phase = "AWAITING_APPROVAL"
    BY <1>8 DEF ApproveSave, SetPhase, At, TypeInv, GoodRequest
  <2>2. overwritten' \in BOOLEAN BY <1>8, OverwritesType DEF ApproveSave, SetPhase
  <2>3. QED
    BY <1>8, <2>1, <2>2, GotoGood, PhaseGood
    DEF ApproveSave, SetPhase, TypeInv, Pcs, effects
<1>9. ASSUME NEW h \in Handlers, ExecutingSave(h) PROVE TypeInv'
  <2>1. overwritten' \in BOOLEAN BY <1>9, OverwritesType DEF ExecutingSave, SetPhase
  <2>2. QED
    BY <1>9, <2>1, GotoGood, PhaseGood
    DEF ExecutingSave, SetPhase, TypeInv, Pcs, effects
<1>10. ASSUME NEW h \in Handlers, SkipSave(h) PROVE TypeInv'
  <2>1. overwritten' \in BOOLEAN BY <1>10, OverwritesType DEF SkipSave, SetPhase
  <2>2. QED
    BY <1>10, <2>1, GotoGood, PhaseGood
    DEF SkipSave, SetPhase, TypeInv, Pcs, effects
<1>11. ASSUME NEW h \in Handlers, ExecuteOrder(h) PROVE TypeInv'
  <2>1. task[h].read.offered \in Items
    BY <1>11 DEF ExecuteOrder, At, TypeInv, GoodRequest, GoodRow, Row
  <2>2. orders' \in Seq(Items) /\ Len(orders') <= MaxOrders
    BY <1>11, <2>1, WorkflowConstants DEF ExecuteOrder, TypeInv
  <2>3. Shape' /\ \A g \in Handlers : GoodRequest(task'[g])
    BY <1>11, GotoGood, ReplyGood DEF ExecuteOrder, Pcs
  <2>4. QED BY <1>11, <2>2, <2>3 DEF ExecuteOrder, TypeInv
<1>12. ASSUME NEW h \in Handlers, Rollover(h) PROVE TypeInv'
  <2>1. Shape' /\ \A g \in Handlers : GoodRequest(task'[g])
    BY <1>12, GotoGood, ReplyGood DEF Rollover, Pcs
  <2>2. QED BY <1>12, <2>1 DEF Rollover, TypeInv
<1>13. ASSUME NEW h \in Handlers, SwapGather(h) PROVE TypeInv'
  <2>1. Shape' /\ \A g \in Handlers : GoodRequest(task'[g])
    <3> DEFINE read == task[h].read
               rejected == read.rejected \union {read.offered}
    <3>1. CASE Goto(h, "skip_save") \/ Reply(h, "error")
      BY <3>1, GotoGood, ReplyGood DEF Pcs
    <3>2. ASSUME NEW menu \in SUBSET Items, Candidates(menu, read.ranked, rejected) # {},
                 Propose(h, Max(Candidates(menu, read.ranked, rejected)), read.ranked, rejected)
          PROVE  Shape' /\ \A g \in Handlers : GoodRequest(task'[g])
      <4>1. read.ranked \in SUBSET Items /\ rejected \in SUBSET Items
        BY <1>13 DEF SwapGather, At, TypeInv, GoodRequest, GoodRow, Row
      <4> HIDE DEF rejected
      <4>2. GoodRow(Proposal(Max(Candidates(menu, read.ranked, rejected)), read.ranked, rejected))
        BY <3>2, <4>1, ProposalGood
      <4>3. QED BY <3>2, <4>2, ProposeGood
    <3>3. QED BY <1>13, <3>1, <3>2 DEF SwapGather
  <2>2. QED BY <1>13, <2>1 DEF SwapGather, TypeInv, effects
<1>14. ASSUME NEW h \in Handlers, Finalize(h) PROVE TypeInv'
  BY <1>14, ReadGood, ReplyGood DEF Finalize, TypeInv, Pcs, effects
<1>15. ASSUME NEW h \in Handlers, Die(h) PROVE TypeInv'
  BY <1>15, ReplyGood DEF Die, TypeInv, effects
<1>16. CASE UNCHANGED workflowVars
  BY <1>16 DEF workflowVars, TypeInv, Shape
<1>17. QED
  BY <1>1, <1>2, <1>3, <1>4, <1>5, <1>6, <1>7, <1>8, <1>9, <1>10, <1>11, <1>12,
     <1>13, <1>14, <1>15, <1>16 DEF Next, Step, UserDecision

(* At the start there is no row, and no request.                             *)
LEMMA TypeInit == Init => TypeInv
<1> SUFFICES ASSUME Init PROVE TypeInv OBVIOUS
<1>1. \A h \in Handlers : GoodRequest(task[h])
  BY NoRowGood DEF Init, GoodRequest, Answered, Request, Pcs
<1>2. overwritten \in BOOLEAN BY DEF Init
<1>3. QED BY <1>1, <1>2, NoRowGood, WorkflowConstants DEF Init, TypeInv, Shape, Answered

(* Type correctness, and with it: whatever requests overlap and whatever     *)
(* fails, the row always offers an item of the ranking that the user has not *)
(* rejected.                                                                 *)
THEOREM TypeCorrect == Spec => []TypeOK
BY TypeInit, TypeStep, TypeImplied, PTL DEF Spec

(* The four ways in which a step changes the requests, field by field.       *)
LEMMA Places ==
  ASSUME TypeInv, NEW h \in Handlers
  PROVE  /\ \A pc : Goto(h, pc) => /\ Rest(h) /\ task'[h].pc = pc
                                   /\ task'[h].read = task[h].read
         /\ \A how : Reply(h, how) => /\ Rest(h) /\ task'[h].pc = "idle"
                                        /\ task'[h].answer = how
         /\ \A pc : Read(h, pc) => Rest(h) /\ task'[h].pc = pc /\ task'[h].read = row
         /\ \A i, ranked, rejected : Propose(h, i, ranked, rejected) =>
              /\ Rest(h) /\ task'[h].pc = "save_proposal" /\ task'[h].read = task[h].read
              /\ task'[h].save = Proposal(i, ranked, rejected)
<1> USE DEF TypeInv
<1>1. ASSUME NEW pc, Goto(h, pc)
      PROVE  Rest(h) /\ task'[h].pc = pc /\ task'[h].read = task[h].read
  <2>1. Rest(h) /\ task'[h] = [pc |-> pc, answer |-> task[h].answer,
                               read |-> task[h].read, save |-> task[h].save]
    BY <1>1, Moves
  <2>2. QED BY <2>1
<1>2. ASSUME NEW how, Reply(h, how) PROVE Rest(h) /\ task'[h].pc = "idle" /\ task'[h].answer = how
  <2>1. Rest(h) /\ task'[h] = Answered(how) BY <1>2, Moves
  <2>2. QED BY <2>1 DEF Answered
<1>3. ASSUME NEW pc, Read(h, pc)
      PROVE  Rest(h) /\ task'[h].pc = pc /\ task'[h].read = row
  <2>1. Rest(h) /\ task'[h] = [pc |-> pc, answer |-> "none", read |-> row, save |-> NoRow]
    BY <1>3, Moves
  <2>2. QED BY <2>1
<1>4. ASSUME NEW i, NEW ranked, NEW rejected, Propose(h, i, ranked, rejected)
      PROVE  /\ Rest(h) /\ task'[h].pc = "save_proposal" /\ task'[h].read = task[h].read
             /\ task'[h].save = Proposal(i, ranked, rejected)
  <2>1. Rest(h) /\ task'[h] = [pc |-> "save_proposal", answer |-> task[h].answer,
                               read |-> task[h].read, save |-> Proposal(i, ranked, rejected)]
    BY <1>4, Moves
  <2>2. QED BY <2>1
<1>5. QED BY <1>1, <1>2, <1>3, <1>4

-----------------------------------------------------------------------------
(* Approval, for any overlap and any faults.  A request that approves works  *)
(* on an item the user approved.                                             *)
ReadsApproved(h) ==
  task[h].pc \in {"approve_save", "execute_order"} => task[h].read.offered \in approvals

(* Only such items have been ordered.                                        *)
OnlyApproved == /\ TypeInv /\ orders \in Seq(approvals)
                /\ \A h \in Handlers : ReadsApproved(h)

(* Approvals are never taken back.                                           *)
LEMMA SeqGrows ==
  ASSUME NEW S, NEW T, S \subseteq T, NEW s \in Seq(S) PROVE s \in Seq(T)
OBVIOUS

(* The step of a request that orders nothing and does not go on to approve.  *)
LEMMA Harmless ==
  ASSUME OnlyApproved, TypeInv', NEW h \in Handlers, UNCHANGED <<orders, approvals>>,
         \/ \E pc : Goto(h, pc) /\ pc \notin {"approve_save", "execute_order"}
         \/ \E how : Reply(h, how)
         \/ \E pc : Read(h, pc) /\ pc \notin {"approve_save", "execute_order"}
         \/ \E i, ranked, rejected : Propose(h, i, ranked, rejected)
  PROVE  OnlyApproved'
<1>1. Rest(h) /\ task'[h].pc \notin {"approve_save", "execute_order"}
  BY Places DEF OnlyApproved
<1>2. QED BY <1>1 DEF OnlyApproved, ReadsApproved, Rest

(* One step keeps the invariant.                                             *)
LEMMA OnlyApprovedStep ==
  ASSUME OnlyApproved, [Next]_workflowVars
  PROVE  OnlyApproved'
<1>t. TypeInv' BY TypeStep DEF OnlyApproved
<1>1. ASSUME NEW h \in Handlers,
             Scout(h) \/ ScoutUpsert(h) \/ ScoutGather(h) \/ SaveProposal(h)
             \/ PublishProposal(h) \/ ExecutingSave(h) \/ PublishApproved(h)
             \/ SkipSave(h) \/ Rollover(h) \/ PublishSkipped(h) \/ SwapGather(h)
             \/ Finalize(h) \/ Die(h) \/ SkipDecision(h) \/ SwapDecision(h)
      PROVE  OnlyApproved'
  BY <1>1, <1>t, Harmless
  DEF Scout, ScoutUpsert, ScoutGather, SaveProposal, PublishProposal, Publish,
      ExecutingSave, SetPhase, PublishApproved, SkipSave, Rollover, PublishSkipped,
      SwapGather, Finalize, Die, Decide, SkipDecision, SwapDecision, effects
<1>2. ASSUME NEW h \in Handlers, ApproveDecision(h) PROVE OnlyApproved'
  <2>1. CASE ~Undecided
    BY <1>2, <1>t, <2>1, Harmless DEF ApproveDecision, Decide
  <2>2. CASE Undecided
    <3>1. /\ Read(h, "approve_save") /\ approvals' = approvals \union {row.offered}
          /\ orders' = orders
      BY <1>2, <2>2 DEF ApproveDecision, Decide
    <3>2. Rest(h) /\ task'[h].read = row
      BY <3>1, Places DEF OnlyApproved
    <3>3. orders' \in Seq(approvals') BY <3>1, SeqGrows DEF OnlyApproved
    <3>4. QED BY <1>t, <3>1, <3>2, <3>3 DEF OnlyApproved, ReadsApproved, Rest
  <2>3. QED BY <2>1, <2>2
<1>3. ASSUME NEW h \in Handlers, ApproveSave(h) PROVE OnlyApproved'
  <2>1. /\ At(h, "approve_save") /\ Goto(h, "execute_order")
        /\ UNCHANGED <<orders, approvals>>
    BY <1>3 DEF ApproveSave, SetPhase, effects
  <2>2. Rest(h) /\ task'[h].read = task[h].read
    BY <2>1, Places DEF OnlyApproved
  <2>3. QED BY <1>t, <2>1, <2>2 DEF OnlyApproved, ReadsApproved, At, Rest
<1>4. ASSUME NEW h \in Handlers, ExecuteOrder(h) PROVE OnlyApproved'
  <2>1. CASE UNCHANGED orders
    BY <1>4, <1>t, <2>1, Harmless DEF ExecuteOrder
  <2>2. CASE orders' = Append(orders, task[h].read.offered)
    <3>1. task[h].read.offered \in approvals
      BY <1>4 DEF ExecuteOrder, At, OnlyApproved, ReadsApproved
    <3>2. orders' \in Seq(approvals') /\ approvals' = approvals
      BY <1>4, <2>2, <3>1 DEF ExecuteOrder, OnlyApproved
    <3>3. Rest(h) /\ task'[h].pc \notin {"approve_save", "execute_order"}
      BY <1>4, Places DEF ExecuteOrder, OnlyApproved
    <3>4. QED BY <1>t, <3>2, <3>3 DEF OnlyApproved, ReadsApproved, Rest
  <2>3. QED BY <1>4, <2>1, <2>2 DEF ExecuteOrder
<1>5. CASE UNCHANGED workflowVars
  BY <1>t, <1>5 DEF workflowVars, OnlyApproved, ReadsApproved
<1>6. QED
  BY <1>1, <1>2, <1>3, <1>4, <1>5 DEF Next, Step, UserDecision

(* Nothing is approved, and nothing ordered, at the start.                   *)
LEMMA OnlyApprovedInit == Init => OnlyApproved
<1>1. Init => \A h \in Handlers : ReadsApproved(h)
  BY DEF Init, ReadsApproved, Answered
<1>2. QED BY <1>1, TypeInit DEF Init, OnlyApproved

(* A meal is ordered only if the user approved that very item, however the   *)
(* requests of the user and of the scheduler interleave and fail.            *)
THEOREM NeverOrderedUnapproved == Spec => []OrderedIsApproved
<1>1. OnlyApproved => OrderedIsApproved
  BY DEF OnlyApproved, OrderedIsApproved
<1>2. QED BY OnlyApprovedInit, OnlyApprovedStep, <1>1, PTL DEF Spec

-----------------------------------------------------------------------------
(* The meal cycle.  As long as nothing has been overwritten:                 *)
(* before a decision nothing is ordered, and a budget is rolled over only    *)
(* for a skipped day;                                                        *)
DayOK ==
  /\ row.phase = "NONE" => row = NoRow
  /\ row.phase = "SCOUTING" => row.rejected = {}
  /\ row.phase \in {"NONE", "SCOUTING", "AWAITING_APPROVAL", "SKIPPED"} => orders = <<>>
  /\ rollovers = 0 \/ row.phase = "SKIPPED"

(* a proposal follows on the row its request read: it is a first one, or it  *)
(* replaces an offer that it counts as rejected;                             *)
Follows(read, save) ==
  /\ save.phase = "AWAITING_APPROVAL"
  /\ \/ read.phase \in {"NONE", "SCOUTING"} /\ save.rejected = {}
     \/ /\ read.phase = "AWAITING_APPROVAL"
        /\ save.rejected = read.rejected \union {read.offered}

(* a request that is ordering has approved the row as it is, and no other    *)
(* request is ordering.                                                      *)
Ordering(q) == q.pc \in {"execute_order", "executing_save"}

InStep(q) ==
  /\ q.pc \in {"scout_upsert", "scout_gather"} => q.read.phase \in {"NONE", "SCOUTING"}
  /\ q.pc = "save_proposal" => Follows(q.read, q.save)
  /\ q.pc \in {"approve_save", "swap_gather", "skip_save"} =>
       q.read.phase = "AWAITING_APPROVAL"
  /\ q.pc = "execute_order" =>
       row.phase = "APPROVED" /\ orders = <<>> /\ q.read.offered = row.offered
  /\ q.pc = "executing_save" => row.phase = "APPROVED" /\ orders # <<>>
  /\ q.pc = "rollover" => row.phase = "SKIPPED"

OneOrders == \A g, h \in Handlers : Ordering(task[g]) /\ Ordering(task[h]) => g = h

(* The state while nothing has been overwritten.                             *)
Orderly == /\ TypeInv /\ OneOrders /\ DayOK
           /\ \A h \in Handlers : InStep(task[h])

(* Others that are not ordering are in step with any row, a skipped one      *)
(* apart, which stays.                                                       *)
LEMMA OneMoves ==
  ASSUME Orderly, NEW h \in Handlers, Rest(h), TypeInv', DayOK', InStep(task[h])',
         \/ UNCHANGED <<row, orders>> /\ (Ordering(task'[h]) => Ordering(task[h]))
         \/ /\ \A g \in Handlers : g # h => ~Ordering(task[g])
            /\ row.phase = "SKIPPED" => row'.phase = "SKIPPED"
  PROVE  Orderly'
<1>1. ASSUME NEW g \in Handlers, g # h PROVE InStep(task[g])'
  <2>1. task'[g] = task[g] /\ InStep(task[g]) BY <1>1 DEF Rest, Orderly
  <2>2. CASE UNCHANGED <<row, orders>> BY <2>1, <2>2 DEF InStep
  <2>3. CASE /\ ~Ordering(task[g])
             /\ row.phase = "SKIPPED" => row'.phase = "SKIPPED"
    BY <2>1, <2>3 DEF InStep, Ordering
  <2>4. QED BY <1>1, <2>2, <2>3
<1>2. \A g \in Handlers : InStep(task[g])' BY <1>1
<1>3. ASSUME NEW f \in Handlers, NEW g \in Handlers, Ordering(task'[f]), Ordering(task'[g])
      PROVE  f = g
  BY <1>3 DEF Rest, Orderly, OneOrders
<1>4. OneOrders' BY <1>3 DEF OneOrders
<1>5. QED BY <1>2, <1>4 DEF Orderly

(* A step of the day, or none.                                               *)
Cycled == Cycle!Next \/ UNCHANGED Cycle!vars

(* A step of a request that leaves the day alone.                            *)
LEMMA QuietStep ==
  ASSUME Orderly, TypeInv', NEW h \in Handlers, UNCHANGED <<row, orders, rollovers>>,
         Rest(h), InStep(task'[h]), ~Ordering(task'[h])
  PROVE  Orderly' /\ Cycled
<1>1. DayOK' BY DEF Orderly, DayOK
<1>2. InStep(task[h])' BY DEF InStep
<1>3. Orderly' BY <1>1, <1>2, OneMoves
<1>4. QED BY <1>3 DEF Cycled, Cycle!vars

(* A request that is answered without touching the row.                      *)
LEMMA AnsweredStep ==
  ASSUME Orderly, TypeInv', NEW h \in Handlers, UNCHANGED <<row, orders, rollovers>>,
         \E how : Reply(h, how)
  PROVE  Orderly' /\ Cycled
<1>1. Rest(h) /\ task'[h].pc = "idle" BY Places DEF Orderly
<1>2. InStep(task'[h]) /\ ~Ordering(task'[h]) BY <1>1 DEF InStep, Ordering
<1>3. QED BY <1>1, <1>2, QuietStep

(* A request that arrives, and is answered or goes on with what it read.     *)
LEMMA ArrivalStep ==
  ASSUME Orderly, TypeInv', NEW h \in Handlers, UNCHANGED <<row, orders, rollovers>>,
         \/ \E how : Reply(h, how)
         \/ Read(h, "scout_upsert") /\ row.phase \in {"NONE", "SCOUTING"}
         \/ \E pc \in {"approve_save", "swap_gather", "skip_save"} : Read(h, pc) /\ Undecided
  PROVE  Orderly' /\ Cycled
<1>1. CASE \E how : Reply(h, how) BY <1>1, AnsweredStep
<1>2. ASSUME NEW pc, Read(h, pc),
             \/ pc = "scout_upsert" /\ row.phase \in {"NONE", "SCOUTING"}
             \/ pc \in {"approve_save", "swap_gather", "skip_save"} /\ Undecided
      PROVE  Orderly' /\ Cycled
  <2>1. Rest(h) /\ task'[h].pc = pc /\ task'[h].read = row
    BY <1>2, Places DEF Orderly
  <2>2. InStep(task'[h]) /\ ~Ordering(task'[h])
    BY <1>2, <2>1 DEF InStep, Undecided, Ordering
  <2>3. QED BY <2>1, <2>2, QuietStep
<1>3. QED BY <1>1, <1>2

(* A save that overwrites nothing finds the row as its request knows it.     *)
LEMMA NothingOverwritten ==
  ASSUME NEW h, Overwrites(h), ~overwritten'
  PROVE  row = Known(h)
BY DEF Overwrites

(* One step keeps the invariant, and is a step of MealCycle or a stutter:    *)
(* saving a first proposal is Propose, saving another Swap, and each         *)
(* decision its own.                                                         *)
LEMMA CycleStep ==
  ASSUME Orderly, [Next]_workflowVars, ~overwritten'
  PROVE  Orderly' /\ Cycled
<1>t. TypeInv' BY TypeStep DEF Orderly
<1>1. ASSUME NEW h \in Handlers,
             Scout(h) \/ UserDecision(h) \/ Finalize(h)
      PROVE  Orderly' /\ Cycled
  BY <1>1, <1>t, ArrivalStep
  DEF Scout, UserDecision, ApproveDecision, SkipDecision, SwapDecision, Decide,
      Finalize, effects
<1>2. ASSUME NEW h \in Handlers,
             PublishProposal(h) \/ PublishApproved(h) \/ PublishSkipped(h) \/ Die(h)
      PROVE  Orderly' /\ Cycled
  BY <1>2, <1>t, AnsweredStep
  DEF PublishProposal, PublishApproved, PublishSkipped, Publish, Die, effects
<1>3. ASSUME NEW h \in Handlers, ScoutUpsert(h) PROVE Orderly' /\ Cycled
  <2>1. /\ task[h].read.phase \in {"NONE", "SCOUTING"} /\ Goto(h, "scout_gather")
        /\ UNCHANGED <<orders, rollovers>>
    BY <1>3 DEF ScoutUpsert, At, Orderly, InStep, effects
  <2>2. Rest(h) /\ task'[h].pc = "scout_gather" /\ task'[h].read = task[h].read
    BY <2>1, Places DEF Orderly
  <2>3. InStep(task'[h]) /\ ~Ordering(task'[h]) BY <2>1, <2>2 DEF InStep, Ordering
  <2>4. CASE row.phase # "NONE"
    <3>1. row' = row BY <1>3, <2>4 DEF ScoutUpsert
    <3>2. QED BY <1>t, <2>1, <2>2, <2>3, <3>1, QuietStep
  <2>5. CASE row.phase = "NONE"
    <3>1. /\ row'.phase = "SCOUTING" /\ row'.offered = row.offered
          /\ row'.rejected = row.rejected /\ row'.rejected = {}
      BY <1>3, <2>5 DEF ScoutUpsert, Opened, NoRow, Orderly, DayOK
    <3>2. DayOK' BY <2>1, <2>5, <3>1 DEF Orderly, DayOK
    <3>3. \A g \in Handlers : ~Ordering(task[g])
      BY <2>5 DEF Orderly, InStep, Ordering
    <3>4. InStep(task[h])' BY <2>2, <2>3, <3>1 DEF InStep
    <3>5. Orderly' BY <1>t, <2>2, <2>5, <3>2, <3>3, <3>4, OneMoves
    <3>6. Cycled BY <2>1, <2>5, <3>1 DEF Cycled, Cycle!Next, Cycle!Open
    <3>7. QED BY <3>5, <3>6
  <2>6. QED BY <2>4, <2>5
<1>4. ASSUME NEW h \in Handlers, ScoutGather(h) PROVE Orderly' /\ Cycled
  <2>1. /\ task[h].read.phase \in {"NONE", "SCOUTING"}
        /\ UNCHANGED <<row, orders, rollovers>>
    BY <1>4 DEF ScoutGather, At, Orderly, InStep, effects
  <2>2. CASE Reply(h, "error") BY <1>t, <2>1, <2>2, AnsweredStep
  <2>3. ASSUME NEW i, NEW ranked, Propose(h, i, ranked, {}) PROVE Orderly' /\ Cycled
    <3>1. /\ Rest(h) /\ task'[h].pc = "save_proposal" /\ task'[h].read = task[h].read
          /\ task'[h].save = Proposal(i, ranked, {})
      BY <2>3, Places DEF Orderly
    <3>2. InStep(task'[h]) /\ ~Ordering(task'[h])
      BY <2>1, <3>1 DEF InStep, Follows, Proposal, Ordering
    <3>3. QED BY <1>t, <2>1, <3>1, <3>2, QuietStep
  <2>4. QED BY <1>4, <2>2, <2>3 DEF ScoutGather
<1>5. ASSUME NEW h \in Handlers, SwapGather(h) PROVE Orderly' /\ Cycled
  <2> DEFINE read == task[h].read
  <2>1. read.phase = "AWAITING_APPROVAL" /\ UNCHANGED <<row, orders, rollovers>>
    BY <1>5 DEF SwapGather, At, Orderly, InStep, effects
  <2>2. CASE Reply(h, "error") BY <1>t, <2>1, <2>2, AnsweredStep
  <2>3. CASE Goto(h, "skip_save")
    <3>1. Rest(h) /\ task'[h].pc = "skip_save" /\ task'[h].read = read
      BY <2>3, Places DEF Orderly
    <3>2. InStep(task'[h]) /\ ~Ordering(task'[h]) BY <2>1, <3>1 DEF InStep, Ordering
    <3>3. QED BY <1>t, <2>1, <3>1, <3>2, QuietStep
  <2>4. ASSUME NEW i, NEW ranked,
               Propose(h, i, ranked, read.rejected \union {read.offered})
        PROVE  Orderly' /\ Cycled
    <3>1. /\ Rest(h) /\ task'[h].pc = "save_proposal" /\ task'[h].read = read
          /\ task'[h].save = Proposal(i, ranked, read.rejected \union {read.offered})
      BY <2>4, Places DEF Orderly
    <3>2. InStep(task'[h]) /\ ~Ordering(task'[h])
      BY <2>1, <3>1 DEF InStep, Follows, Proposal, Ordering
    <3>3. QED BY <1>t, <2>1, <3>1, <3>2, QuietStep
  <2>5. QED BY <1>5, <2>2, <2>3, <2>4 DEF SwapGather
<1>6. ASSUME NEW h \in Handlers, SaveProposal(h) PROVE Orderly' /\ Cycled
  <2>1. /\ Follows(task[h].read, row') /\ GoodRow(row') /\ Goto(h, "publish_proposal")
        /\ row = Known(h) /\ At(h, "save_proposal") /\ UNCHANGED <<orders, rollovers>>
    BY <1>6, NothingOverwritten
    DEF SaveProposal, At, Orderly, InStep, TypeInv, GoodRequest, effects
  <2>2. /\ row'.phase = "AWAITING_APPROVAL" /\ row'.offered \in Items
        /\ row'.offered \notin row'.rejected
    BY <2>1 DEF Follows, GoodRow, Row
  <2>3. \/ row.phase = "SCOUTING" /\ row'.rejected = {}
        \/ /\ row.phase = "AWAITING_APPROVAL"
           /\ row'.rejected = row.rejected \union {row.offered}
    BY <2>1 DEF Follows, Known, Opened, NoRow, At
  <2>4. orders = <<>> /\ rollovers = 0 BY <2>3 DEF Orderly, DayOK
  <2>5. DayOK' BY <2>1, <2>2, <2>4 DEF DayOK
  <2>6. Rest(h) /\ task'[h].pc = "publish_proposal" BY <2>1, Places DEF Orderly
  <2>7. InStep(task[h])' BY <2>6 DEF InStep
  <2>8. \A g \in Handlers : ~Ordering(task[g]) BY <2>3 DEF Orderly, InStep, Ordering
  <2>9. Orderly' BY <1>t, <2>3, <2>5, <2>6, <2>7, <2>8, OneMoves
  <2>10. CASE row.phase = "SCOUTING" /\ row'.rejected = {}
    <3>1. row.rejected = {} BY <2>10 DEF Orderly, DayOK
    <3>2. Cycle!Propose(row'.offered) BY <2>1, <2>2, <2>10, <3>1, Trans DEF Cycle!Propose
    <3>3. QED BY <2>2, <2>9, <3>2 DEF Cycled, Cycle!Next
  <2>11. CASE /\ row.phase = "AWAITING_APPROVAL"
              /\ row'.rejected = row.rejected \union {row.offered}
    <3>1. Cycle!Swap(row'.offered) BY <2>1, <2>2, <2>11, Trans DEF Cycle!Swap
    <3>2. QED BY <2>2, <2>9, <3>1 DEF Cycled, Cycle!Next
  <2>12. QED BY <2>3, <2>10, <2>11
<1>7. ASSUME NEW h \in Handlers, ApproveSave(h) PROVE Orderly' /\ Cycled
  <2>1. /\ task[h].read.phase = "AWAITING_APPROVAL" /\ row = Known(h) /\ At(h, "approve_save")
        /\ Goto(h, "execute_order") /\ row' = [row EXCEPT !.phase = "APPROVED"]
        /\ UNCHANGED <<orders, rollovers>> /\ row \in Row
    BY <1>7, NothingOverwritten
    DEF ApproveSave, SetPhase, At, Orderly, InStep, TypeInv, GoodRow, effects
  <2>2. row = task[h].read /\ row.phase = "AWAITING_APPROVAL" BY <2>1 DEF Known, At
  <2>3. row'.phase = "APPROVED" /\ row'.offered = row.offered /\ row'.rejected = row.rejected
    BY <2>1 DEF Row
  <2>4. orders = <<>> /\ rollovers = 0 BY <2>2 DEF Orderly, DayOK
  <2>5. DayOK' BY <2>1, <2>3, <2>4 DEF DayOK
  <2>6. Rest(h) /\ task'[h].pc = "execute_order" /\ task'[h].read = row
    BY <2>1, <2>2, Places DEF Orderly
  <2>7. InStep(task[h])' BY <2>1, <2>3, <2>4, <2>6 DEF InStep
  <2>8. \A g \in Handlers : ~Ordering(task[g]) BY <2>2 DEF Orderly, InStep, Ordering
  <2>9. Orderly' BY <1>t, <2>2, <2>5, <2>6, <2>7, <2>8, OneMoves
  <2>10. Cycled BY <2>1, <2>2, <2>3, Trans DEF Cycled, Cycle!Next, Cycle!Approve
  <2>11. QED BY <2>9, <2>10
<1>8. ASSUME NEW h \in Handlers, ExecuteOrder(h) PROVE Orderly' /\ Cycled
  <2>1. /\ row.phase = "APPROVED" /\ orders = <<>> /\ Ordering(task[h])
        /\ task[h].read.offered = row.offered /\ UNCHANGED <<row, rollovers>>
    BY <1>8 DEF ExecuteOrder, At, Orderly, InStep, Ordering
  <2>2. DayOK' BY <2>1 DEF Orderly, DayOK
  <2>3. \A g \in Handlers : g # h => ~Ordering(task[g])
    BY <2>1 DEF Orderly, OneOrders
  <2>4. CASE UNCHANGED orders
    BY <1>8, <1>t, <2>1, <2>4, AnsweredStep DEF ExecuteOrder
  <2>5. CASE orders' = Append(orders, task[h].read.offered)
    <3>1. orders' = <<row.offered>> /\ orders' # <<>> BY <2>1, <2>5
    <3>2. Cycled BY <2>1, <3>1 DEF Cycled, Cycle!Next, Cycle!Order
    <3>3. CASE Goto(h, "executing_save")
      <4>1. Rest(h) /\ task'[h].pc = "executing_save" BY <3>3, Places DEF Orderly
      <4>2. InStep(task[h])' BY <2>1, <3>1, <4>1 DEF InStep
      <4>3. QED BY <1>t, <2>1, <2>2, <2>3, <3>2, <4>1, <4>2, OneMoves
    <3>4. CASE Reply(h, "error")
      <4>1. Rest(h) /\ task'[h].pc = "idle" BY <3>4, Places DEF Orderly
      <4>2. InStep(task[h])' BY <4>1 DEF InStep
      <4>3. QED BY <1>t, <2>1, <2>2, <2>3, <3>2, <4>1, <4>2, OneMoves
    <3>5. QED BY <1>8, <2>1, <2>5, <3>1, <3>3, <3>4 DEF ExecuteOrder
  <2>6. QED BY <1>8, <2>4, <2>5 DEF ExecuteOrder
<1>9. ASSUME NEW h \in Handlers, ExecutingSave(h) PROVE Orderly' /\ Cycled
  <2>1. /\ row.phase = "APPROVED" /\ orders # <<>> /\ Goto(h, "publish_approved")
        /\ row' = [row EXCEPT !.phase = "EXECUTING"] /\ UNCHANGED <<orders, rollovers>>
        /\ row \in Row /\ Ordering(task[h])
    BY <1>9 DEF ExecutingSave, SetPhase, At, Orderly, InStep, TypeInv, GoodRow, effects,
                Ordering
  <2>2. row'.phase = "EXECUTING" /\ row'.offered = row.offered /\ row'.rejected = row.rejected
    BY <2>1 DEF Row
  <2>3. DayOK' BY <2>1, <2>2 DEF Orderly, DayOK
  <2>4. Rest(h) /\ task'[h].pc = "publish_approved" BY <2>1, Places DEF Orderly
  <2>5. InStep(task[h])' BY <2>4 DEF InStep
  <2>6. \A g \in Handlers : g # h => ~Ordering(task[g])
    BY <2>1 DEF Orderly, OneOrders
  <2>7. Orderly' BY <1>t, <2>1, <2>3, <2>4, <2>5, <2>6, OneMoves
  <2>8. Cycled BY <2>1, <2>2, Trans DEF Cycled, Cycle!Next, Cycle!Execute
  <2>9. QED BY <2>7, <2>8
<1>10. ASSUME NEW h \in Handlers, SkipSave(h) PROVE Orderly' /\ Cycled
  <2>1. /\ task[h].read.phase = "AWAITING_APPROVAL" /\ row = Known(h) /\ At(h, "skip_save")
        /\ Goto(h, "rollover") /\ row' = [row EXCEPT !.phase = "SKIPPED"]
        /\ UNCHANGED <<orders, rollovers>> /\ row \in Row
    BY <1>10, NothingOverwritten
    DEF SkipSave, SetPhase, At, Orderly, InStep, TypeInv, GoodRow, effects
  <2>2. row.phase = "AWAITING_APPROVAL" BY <2>1 DEF Known, At
  <2>3. row'.phase = "SKIPPED" /\ row'.offered = row.offered /\ row'.rejected = row.rejected
    BY <2>1 DEF Row
  <2>4. DayOK' BY <2>1, <2>2, <2>3 DEF Orderly, DayOK
  <2>5. Rest(h) /\ task'[h].pc = "rollover" BY <2>1, Places DEF Orderly
  <2>6. InStep(task[h])' BY <2>3, <2>5 DEF InStep
  <2>7. \A g \in Handlers : ~Ordering(task[g]) BY <2>2 DEF Orderly, InStep, Ordering
  <2>8. Orderly' BY <1>t, <2>2, <2>4, <2>5, <2>6, <2>7, OneMoves
  <2>9. Cycled BY <2>1, <2>2, <2>3, Trans DEF Cycled, Cycle!Next, Cycle!Skip
  <2>10. QED BY <2>8, <2>9
<1>11. ASSUME NEW h \in Handlers, Rollover(h) PROVE Orderly' /\ Cycled
  <2>1. row.phase = "SKIPPED" /\ UNCHANGED <<row, orders>>
    BY <1>11 DEF Rollover, At, Orderly, InStep
  <2>2. DayOK' BY <2>1 DEF Orderly, DayOK
  <2>3. Cycled BY <2>1 DEF Cycled, Cycle!vars
  <2>4. Rest(h) /\ task'[h].pc \in {"publish_skipped", "idle"}
    BY <1>11, Places DEF Rollover, Orderly
  <2>5. InStep(task[h])' /\ ~Ordering(task'[h]) BY <2>4 DEF InStep, Ordering
  <2>6. QED BY <1>t, <2>1, <2>2, <2>3, <2>4, <2>5, OneMoves
<1>12. CASE UNCHANGED workflowVars
  <2>1. UNCHANGED <<row, task, orders, rollovers>> BY <1>12 DEF workflowVars
  <2>2. OneOrders' /\ DayOK' BY <2>1 DEF Orderly, OneOrders, DayOK
  <2>3. ASSUME NEW h \in Handlers PROVE InStep(task[h])'
    <3>1. InStep(task[h]) /\ task'[h] = task[h] BY <2>1 DEF Orderly
    <3>2. QED BY <2>1, <3>1 DEF InStep
  <2>4. QED BY <1>t, <2>1, <2>2, <2>3 DEF Orderly, Cycled, Cycle!vars
<1>13. QED
  BY <1>1, <1>2, <1>3, <1>4, <1>5, <1>6, <1>7, <1>8, <1>9, <1>10, <1>11, <1>12
  DEF Next, Step

(* The invariant: orderly until something is overwritten, which stays on     *)
(* record.                                                                   *)
Tracked == TypeInv /\ (overwritten \/ Orderly)

(* What has been overwritten stays so.                                       *)
LEMMA OverwrittenStays == overwritten /\ [Next]_workflowVars => overwritten'
BY DEF Next, UserDecision, Step, Scout, ApproveDecision, SkipDecision, SwapDecision, Decide,
       Finalize, Die, ScoutUpsert, ScoutGather, SaveProposal, PublishProposal, ApproveSave,
       ExecuteOrder, ExecutingSave, PublishApproved, SkipSave, Rollover, PublishSkipped,
       SwapGather, SetPhase, Publish, Overwrites, workflowVars

(* One step keeps it.                                                        *)
LEMMA TrackedStep ==
  ASSUME Tracked, [Next]_workflowVars
  PROVE  Tracked' /\ (overwritten' \/ Cycled)
<1>1. TypeInv' BY TypeStep DEF Tracked
<1>2. CASE overwritten' BY <1>1, <1>2 DEF Tracked
<1>3. CASE ~overwritten'
  <2>1. Orderly BY <1>3, OverwrittenStays DEF Tracked
  <2>2. QED BY <1>1, <1>3, <2>1, CycleStep DEF Tracked
<1>4. QED BY <1>2, <1>3

(* The day starts as MealCycle does.                                         *)
LEMMA TrackedInit == Init => Tracked /\ Cycle!Init
<1> SUFFICES ASSUME Init PROVE Tracked /\ Cycle!Init OBVIOUS
<1>1. TypeInv BY TypeInit
<1>2. OneOrders /\ DayOK /\ (\A h \in Handlers : InStep(task[h])) /\ Cycle!Init
  BY DEF Init, Answered, DayOK, InStep, NoRow, OneOrders, Ordering, Cycle!Init
<1>3. QED BY <1>1, <1>2 DEF Tracked, Orderly

(* For any menu, ranking, faults and overlap the service implements          *)
(* MealCycle until a save goes over a row that its request had not seen: till *)
(* then no decided day is reopened, no refused item offered again, and the   *)
(* approved meal alone is ordered, once.                                     *)
THEOREM ImplementsMealCycle == Spec => MealCycleUnlessOverwritten
<1>1. Tracked /\ [Next]_workflowVars => Tracked' /\ [Cycle!Next \/ overwritten']_(Cycle!vars)
  BY TrackedStep DEF Cycled
<1>2. QED BY TrackedInit, <1>1, PTL DEF Spec, MealCycleUnlessOverwritten

(* However requests overlap and whichever call fails after the decision, a   *)
(* day is both ordered and rolled over only if a save went over a row that   *)
(* its request had not seen.                                                 *)
THEOREM EitherOrderedOrRolledOver == Spec => []BothOnlyIfOverwritten
<1>1. Tracked /\ [Next]_workflowVars => Tracked' BY TrackedStep
<1>2. Tracked => BothOnlyIfOverwritten
  BY DEF Tracked, Orderly, DayOK, BothOnlyIfOverwritten, RolledOverOrOrdered
<1>3. QED BY TrackedInit, <1>1, <1>2, PTL DEF Spec

-----------------------------------------------------------------------------
(* The scheduler reaches the workflow through its requests only.             *)
LEMMA WorkflowStep == [SchedulerNext]_schedulerVars => [Next]_workflowVars
BY DEF SchedulerNext, Tick, CronStep, CronDies, ServeStep, Wake, DispatchScout,
       ScoutAnswer, DispatchNotifyReminder, DispatchFinalize, FinalizeAnswer, Answer,
       PassOver, Next, schedulerVars

(* The workflow driven by the scheduler is the workflow: what is proved of   *)
(* Workflow for any requests holds of the requests the scheduler makes.      *)
THEOREM SchedulerIsWorkflow == SchedulerSpec => Spec
BY WorkflowStep, PTL DEF SchedulerSpec, SchedulerInit, Spec

(* The scheduler's variables have their types, and the pass awaits a request *)
(* exactly where it has sent one.                                            *)
CronOK ==
  /\ clock \in 0..3 /\ marks \subseteq Windows
  /\ cron \in [pc : CronPcs, now : 0..3, request : SUBSET Handlers]
  /\ cron.now <= clock
  /\ CronAt("await_scout") \/ CronAt("await_finalize") <=> cron.request # {}

(* One step keeps the types of the scheduler's state.                        *)
LEMMA CronStepOK ==
  ASSUME CronOK, [SchedulerNext]_schedulerVars
  PROVE  CronOK'
<1> USE DEF CronOK, CronPcs, CronAt, Windows
<1>1. CASE Tick BY <1>1 DEF Tick
<1>2. CASE Wake BY <1>2 DEF Wake
<1>3. ASSUME NEW w \in Windows, NEW next \in {"notify", "finalize", "asleep"},
             PassOver(w, next)
      PROVE  CronOK'
  BY <1>3 DEF PassOver, CronGoto
<1>4. ASSUME NEW w \in Windows, NEW pc \in {"await_scout", "await_finalize"},
             NEW h \in Handlers, Call(w, pc, h)
      PROVE  CronOK'
  BY <1>4 DEF Call
<1>5. ASSUME NEW w \in Windows, NEW pc \in CronPcs, NEW next \in {"notify", "asleep"},
             Answer(w, pc, next)
      PROVE  CronOK'
  BY <1>5 DEF Answer, CronGoto
<1>6. CASE DispatchNotifyReminder BY <1>6 DEF DispatchNotifyReminder, CronGoto
<1>7. CASE CronDies BY <1>7 DEF CronDies, CronGoto
<1>8. CASE ServeStep \/ UNCHANGED schedulerVars
  BY <1>8 DEF ServeStep, scheduleVars, schedulerVars
<1>9. QED
  BY <1>1, <1>2, <1>3, <1>4, <1>5, <1>6, <1>7, <1>8
  DEF SchedulerNext, CronStep, DispatchScout, ScoutAnswer, DispatchFinalize, FinalizeAnswer

(* The scheduler starts asleep, with nothing marked.                         *)
LEMMA CronInitOK == SchedulerInit => CronOK
BY DEF SchedulerInit, CronOK, CronPcs, CronAt

(* The day has been scouted.                                                 *)
Scouted == row.phase \notin {"NONE", "SCOUTING"}

(* What a request is about to save is a proposal.                            *)
Saving == \A h \in Handlers :
            At(h, "save_proposal") => task[h].save.phase = "AWAITING_APPROVAL"

(* A request the scheduler waits for is a scout, and if it is past the save, *)
(* or answered well, the day has been scouted.                               *)
Scouting(h) ==
  /\ task[h].pc \in {"scout_upsert", "scout_gather", "save_proposal",
                     "publish_proposal", "idle"}
  /\ At(h, "publish_proposal") \/ (Idle(h) /\ task[h].answer = "ok") => Scouted

(* The invariant: the request whose answer the scheduler awaits is the scout *)
(* it asked for.                                                             *)
MarksTrue ==
  /\ TypeInv /\ CronOK /\ Saving /\ MarkedIsScouted
  /\ CronAt("await_scout") => \A h \in cron.request : Scouting(h)

(* No step takes a scouted day back.                                         *)
LEMMA SavingStep ==
  ASSUME TypeInv, Saving, [Next]_workflowVars
  PROVE  Saving' /\ (Scouted => Scouted')
<1>1. ASSUME NEW h \in Handlers, Rest(h),
             task'[h].pc = "save_proposal" => task'[h].save.phase = "AWAITING_APPROVAL"
      PROVE  Saving'
  BY <1>1 DEF Saving, At, Rest
<1>2. ASSUME NEW h \in Handlers,
             \/ \E pc : (Goto(h, pc) \/ Read(h, pc)) /\ pc # "save_proposal"
             \/ \E how : Reply(h, how)
             \/ \E i, ranked, rejected : Propose(h, i, ranked, rejected)
      PROVE  Saving'
  <2>1. ASSUME NEW i, NEW ranked, NEW rejected, Propose(h, i, ranked, rejected)
        PROVE  Saving'
    <3>1. Rest(h) /\ task'[h].save = Proposal(i, ranked, rejected) BY <2>1, Places
    <3>2. QED BY <1>1, <3>1 DEF Proposal
  <2>2. CASE \/ \E pc : (Goto(h, pc) \/ Read(h, pc)) /\ pc # "save_proposal"
             \/ \E how : Reply(h, how)
    <3>1. Rest(h) /\ task'[h].pc # "save_proposal" BY <2>2, Places
    <3>2. QED BY <1>1, <3>1
  <2>3. QED BY <1>2, <2>1, <2>2
<1>3. ASSUME NEW h \in Handlers,
             \/ Scout(h) \/ ScoutGather(h) \/ PublishProposal(h) \/ UserDecision(h)
             \/ ExecuteOrder(h) \/ PublishApproved(h) \/ Rollover(h) \/ PublishSkipped(h)
             \/ SwapGather(h) \/ Finalize(h) \/ Die(h)
      PROVE  Saving' /\ UNCHANGED row
  BY <1>2, <1>3
  DEF Scout, ScoutGather, PublishProposal, UserDecision, ApproveDecision, SkipDecision,
      SwapDecision, Decide, ExecuteOrder, PublishApproved, Rollover, PublishSkipped,
      Publish, SwapGather, Finalize, Die
<1>4. ASSUME NEW h \in Handlers, ScoutUpsert(h) PROVE Saving' /\ (Scouted => Scouted')
  BY <1>2, <1>4 DEF ScoutUpsert, Scouted
<1>5. ASSUME NEW h \in Handlers, SaveProposal(h) PROVE Saving' /\ Scouted'
  BY <1>2, <1>5 DEF SaveProposal, Saving, Scouted, At
<1>6. ASSUME NEW h \in Handlers, ApproveSave(h) \/ ExecutingSave(h) \/ SkipSave(h)
      PROVE  Saving' /\ Scouted'
  <2>1. row \in Row BY DEF TypeInv, GoodRow
  <2>2. QED
    BY <1>2, <1>6, <2>1 DEF ApproveSave, ExecutingSave, SkipSave, SetPhase, Scouted, Row
<1>7. CASE UNCHANGED workflowVars BY <1>7 DEF workflowVars, Saving, At, Scouted
<1>8. QED BY <1>3, <1>4, <1>5, <1>6, <1>7 DEF Next, Step, Scouted

(* A scout stays a scout until it is answered.                               *)
LEMMA ScoutingStep ==
  ASSUME TypeInv, Saving, NEW h \in Handlers, Scouting(h), Scouted => Scouted',
         \/ Step(h) \/ Die(h)
         \/ UNCHANGED task
         \/ \E g \in Handlers : g # h /\ (Step(g) \/ Die(g) \/ UserDecision(g))
  PROVE  Scouting(h)'
<1>1. CASE UNCHANGED task BY <1>1 DEF Scouting, At, Idle
<1>2. ASSUME NEW g \in Handlers, g # h, Step(g) \/ Die(g) \/ UserDecision(g)
      PROVE  Scouting(h)'
  <2>1. \/ \E pc : Goto(g, pc) \/ Read(g, pc)
        \/ \E how : Reply(g, how)
        \/ \E i, ranked, rejected : Propose(g, i, ranked, rejected)
    BY <1>2
    DEF Step, ScoutUpsert, ScoutGather, SaveProposal, PublishProposal, ApproveSave,
        ExecuteOrder, ExecutingSave, PublishApproved, SkipSave, Rollover, PublishSkipped,
        SwapGather, SetPhase, Publish, Die, UserDecision, ApproveDecision, SkipDecision,
        SwapDecision, Decide
  <2>2. Rest(g) BY <2>1, Places
  <2>3. task'[h] = task[h] BY <1>2, <2>2 DEF Rest
  <2>4. QED BY <2>3 DEF Scouting, At, Idle
<1>3. CASE Die(h)
  <2>1. task'[h].pc = "idle" /\ task'[h].answer = "error" BY <1>3, Places DEF Die
  <2>2. QED BY <2>1 DEF Scouting, At, Idle
<1>4. CASE Step(h)
  <2>1. ScoutUpsert(h) \/ ScoutGather(h) \/ SaveProposal(h) \/ PublishProposal(h)
    BY <1>4
    DEF Step, Scouting, At, ApproveSave, ExecuteOrder, ExecutingSave, PublishApproved,
        SkipSave, Rollover, PublishSkipped, SwapGather, SetPhase, Publish
  <2>2. CASE ScoutUpsert(h)
    <3>1. task'[h].pc = "scout_gather" BY <2>2, Places DEF ScoutUpsert
    <3>2. QED BY <3>1 DEF Scouting, At, Idle
  <2>3. CASE ScoutGather(h)
    <3>1. \/ task'[h].pc = "idle" /\ task'[h].answer = "error"
          \/ task'[h].pc = "save_proposal"
      BY <2>3, Places DEF ScoutGather
    <3>2. QED BY <3>1 DEF Scouting, At, Idle
  <2>4. CASE SaveProposal(h)
    <3>1. task'[h].pc = "publish_proposal" BY <2>4, Places DEF SaveProposal
    <3>2. Scouted' BY <2>4 DEF SaveProposal, Saving, Scouted, At
    <3>3. QED BY <3>1, <3>2 DEF Scouting, At, Idle
  <2>5. CASE PublishProposal(h)
    <3>1. task'[h].pc = "idle" BY <2>5, Places DEF PublishProposal, Publish
    <3>2. Scouted BY <2>5 DEF PublishProposal, Publish, Scouting
    <3>3. QED BY <3>1, <3>2 DEF Scouting, At, Idle
  <2>6. QED BY <2>1, <2>2, <2>3, <2>4, <2>5
<1>5. QED BY <1>1, <1>2, <1>3, <1>4

(* One step keeps the invariant.                                             *)
LEMMA MarksStep ==
  ASSUME MarksTrue, [SchedulerNext]_schedulerVars
  PROVE  MarksTrue'
<1>1. TypeInv' /\ CronOK' /\ Saving' /\ (Scouted => Scouted')
  BY WorkflowStep, TypeStep, CronStepOK, SavingStep DEF MarksTrue
<1>2. ASSUME "scout" \in marks' => "scout" \in marks \/ Scouted PROVE MarkedIsScouted'
  BY <1>1, <1>2 DEF MarksTrue, MarkedIsScouted, Scouted
<1>3. ASSUME marks' = marks, ~CronAt("await_scout")' PROVE MarksTrue'
  BY <1>1, <1>2, <1>3 DEF MarksTrue
<1>4. CASE DispatchScout
  <2>1. PICK h \in Handlers : Scout(h) /\ Call("scout", "await_scout", h)
    BY <1>4 DEF DispatchScout
  <2>2. marks' = marks /\ cron'.request = {h}
    BY <2>1 DEF Call, MarksTrue, CronOK
  <2>3. \/ task'[h].pc = "idle" /\ task'[h].answer = "error"
        \/ task'[h].pc = "scout_upsert"
    BY <2>1, Places DEF Scout, MarksTrue
  <2>4. Scouting(h)' BY <2>3 DEF Scouting, At, Idle
  <2>5. QED BY <1>1, <1>2, <2>2, <2>4 DEF MarksTrue
<1>5. CASE ScoutAnswer
  <2>1. "scout" \in marks' => "scout" \in marks \/ Scouted
    BY <1>5 DEF ScoutAnswer, Answer, MarksTrue, Scouting
  <2>2. ~CronAt("await_scout")'
    BY <1>5 DEF ScoutAnswer, Answer, CronGoto, CronAt, MarksTrue, CronOK
  <2>3. QED BY <1>1, <1>2, <2>1, <2>2 DEF MarksTrue
<1>6. CASE DispatchNotifyReminder \/ FinalizeAnswer
  <2>1. "scout" \in marks' => "scout" \in marks
    BY <1>6 DEF DispatchNotifyReminder, FinalizeAnswer, Answer
  <2>2. ~CronAt("await_scout")'
    BY <1>6 DEF DispatchNotifyReminder, FinalizeAnswer, Answer, CronGoto, CronAt, MarksTrue,
                CronOK
  <2>3. QED BY <1>1, <1>2, <2>1, <2>2 DEF MarksTrue
<1>7. CASE \/ Wake \/ CronDies \/ DispatchFinalize
           \/ PassOver("scout", "notify") \/ PassOver("notify", "finalize")
           \/ PassOver("finalize", "asleep")
  <2>1. marks' = marks BY <1>7 DEF Wake, CronDies, DispatchFinalize, Call, PassOver
  <2>2. cron \in [pc : CronPcs, now : 0..3, request : SUBSET Handlers]
    BY DEF MarksTrue, CronOK
  <2>3. \A pc : CronGoto(pc) => cron'.pc = pc BY <2>2 DEF CronGoto
  <2>4. CASE Wake
    <3>1. ~CronAt("await_scout")' BY <2>4 DEF Wake, CronAt
    <3>2. QED BY <1>3, <2>1, <3>1
  <2>5. CASE DispatchFinalize
    <3>1. ~CronAt("await_scout")' BY <2>2, <2>5 DEF DispatchFinalize, Call, CronAt
    <3>2. QED BY <1>3, <2>1, <3>1
  <2>6. CASE ~Wake /\ ~DispatchFinalize
    <3>1. ~CronAt("await_scout")' BY <1>7, <2>3, <2>6 DEF CronDies, PassOver, CronAt
    <3>2. QED BY <1>3, <2>1, <3>1
  <2>7. QED BY <2>4, <2>5, <2>6
<1>8. CASE Tick \/ ServeStep \/ UNCHANGED schedulerVars
  <2>1. UNCHANGED <<marks, cron>>
    BY <1>8 DEF Tick, ServeStep, scheduleVars, schedulerVars
  <2>2. ASSUME CronAt("await_scout"), NEW h \in cron.request PROVE Scouting(h)'
    <3>1. h \in Handlers /\ Scouting(h) BY <2>2 DEF MarksTrue, CronOK
    <3>2. \/ Step(h) \/ Die(h)
          \/ UNCHANGED task
          \/ \E g \in Handlers : g # h /\ (Step(g) \/ Die(g) \/ UserDecision(g))
      BY <1>8, <2>2 DEF Tick, ServeStep, schedulerVars, workflowVars
    <3>3. QED BY <1>1, <3>1, <3>2, ScoutingStep DEF MarksTrue
  <2>3. QED BY <1>1, <1>2, <2>1, <2>2 DEF MarksTrue, CronAt
<1>9. QED
  BY <1>4, <1>5, <1>6, <1>7, <1>8 DEF SchedulerNext, CronStep

(* Nothing is marked at the start.                                           *)
LEMMA MarksInit == SchedulerInit => MarksTrue
<1> SUFFICES ASSUME SchedulerInit PROVE MarksTrue OBVIOUS
<1>1. TypeInv /\ CronOK BY TypeInit, CronInitOK DEF SchedulerInit
<1>2. QED
  BY <1>1 DEF SchedulerInit, Init, Answered, MarksTrue, Saving, At, MarkedIsScouted, CronAt

(* The scheduler marks a day as scouted only if it was: an error, a lost     *)
(* answer or a restart never makes it take a scout for done that was not,    *)
(* however requests overlap.                                                 *)
THEOREM OnlyScoutedMarked == SchedulerSpec => []MarkedIsScouted
<1>1. MarksTrue => MarkedIsScouted BY DEF MarksTrue
<1>2. QED BY MarksInit, MarksStep, <1>1, PTL DEF SchedulerSpec
=============================================================================
