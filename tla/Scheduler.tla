------------------------------ MODULE Scheduler ------------------------------
(***************************************************************************)
(* scheduler-service: the cron that takes one user's day through its three  *)
(* windows, by calls to the orchestrator (Workflow) that time out after 5   *)
(* seconds.  Each window has its own last-fired column, written only after  *)
(* the call has succeeded; what is not marked is tried again by the next    *)
(* pass, 5 minutes later.                                                   *)
(***************************************************************************)
EXTENDS Workflow

CONSTANTS Slow    \* may the orchestrator answer after the caller's timeout?

ASSUME SchedulerConstants == Slow \in BOOLEAN

VARIABLES clock,   \* the windows that are open: 0..3
          marks,   \* the windows whose column says today
          cron     \* the pass: its place, the time it started, its request

scheduleVars == <<clock, marks, cron>>
schedulerVars == <<workflowVars, scheduleVars>>

Windows == {"scout", "notify", "finalize"}

(* The n-th window is open from the n-th of the three times of day on.       *)
Opens == [scout |-> 1, notify |-> 2, finalize |-> 3]

CronPcs == {"asleep", "scout", "await_scout", "notify", "finalize", "await_finalize"}

SchedulerInit ==
  /\ Init /\ clock = 0 /\ marks = {}
  /\ cron = [pc |-> "asleep", now |-> 0, request |-> {}]

CronAt(pc) == cron.pc = pc

CronGoto(pc) == cron' = [cron EXCEPT !.pc = pc, !.request = {}]

Tick == /\ clock < 3 /\ clock' = clock + 1
        /\ UNCHANGED <<workflowVars, marks, cron>>


(* findMany: some column is not of today.                                    *)
Due == marks # Windows

Wake == /\ CronAt("asleep") /\ Due
        /\ cron' = [pc |-> "scout", now |-> clock, request |-> {}]
        /\ UNCHANGED <<workflowVars, clock, marks>>

ToDispatch(w) == w \notin marks /\ cron.now >= Opens[w]

(* A window that is marked or not open yet; or, for the scout, a user        *)
(* without a usable profile, or auth-service not answering.                  *)
PassOver(w, next) ==
  /\ CronAt(w) /\ (~ToDispatch(w) \/ (w = "scout" /\ Failing("gather")))
  /\ CronGoto(next) /\ UNCHANGED <<workflowVars, clock, marks>>

(* The request is sent; from here on the orchestrator serves it.             *)
Call(w, pc, h) ==
  /\ CronAt(w) /\ ToDispatch(w)
  /\ cron' = [cron EXCEPT !.pc = pc, !.request = {h}]
  /\ UNCHANGED <<clock, marks>>

(* Mutant: an error answer is marked like a success.                         *)
AnswerMarkingErrors(w, pc, next) ==
  /\ CronAt(pc) /\ CronGoto(next)
  /\ \/ \E h \in cron.request : Idle(h) /\ marks' = marks \union {w}
     \/ Slow /\ UNCHANGED marks
  /\ UNCHANGED <<workflowVars, clock>>

(* The answer: success is marked, an error only logged -- and so is an       *)
(* answer that takes too long, while the request goes on being served.       *)
Answer(w, pc, next) ==
  /\ CronAt(pc) /\ CronGoto(next)
  /\ \/ \E h \in cron.request :
          /\ Idle(h)
          /\ marks' = IF task[h].answer = "ok" THEN marks \union {w} ELSE marks
     \/ Slow /\ UNCHANGED marks
  /\ UNCHANGED <<workflowVars, clock>>

DispatchScout == \E h \in Handlers : Scout(h) /\ Call("scout", "await_scout", h)
ScoutAnswer == Answer("scout", "await_scout", "notify")

(* The reminder changes nothing at the orchestrator.                         *)
DispatchNotifyReminder ==
  /\ CronAt("notify") /\ ToDispatch("notify") /\ CronGoto("finalize")
  /\ \/ marks' = marks \union {"notify"}
     \/ (Slow \/ Failing("upstream")) /\ UNCHANGED marks
  /\ UNCHANGED <<workflowVars, clock>>

DispatchFinalize ==
  \E h \in Handlers : Finalize(h) /\ Call("finalize", "await_finalize", h)
FinalizeAnswer == Answer("finalize", "await_finalize", "asleep")

CronStep ==
  \/ Wake \/ DispatchScout \/ ScoutAnswer \/ DispatchNotifyReminder
  \/ DispatchFinalize \/ FinalizeAnswer
  \/ PassOver("scout", "notify") \/ PassOver("notify", "finalize")
  \/ PassOver("finalize", "asleep")

(* The scheduler's process dies in the middle of a pass; the next pass finds  *)
(* what it has marked.                                                       *)
CronDies == /\ Failing("cron") /\ ~CronAt("asleep") /\ CronGoto("asleep")
            /\ UNCHANGED <<workflowVars, clock, marks>>

(* The rest of the orchestrator: the users' decisions, and its awaits.       *)
ServeStep ==
  /\ \E h \in Handlers : \/ h \notin cron.request /\ UserDecision(h)
                         \/ Step(h) \/ Die(h)
  /\ UNCHANGED scheduleVars

SchedulerNext == Tick \/ CronStep \/ CronDies \/ ServeStep

SchedulerSpec == SchedulerInit /\ [][SchedulerNext]_schedulerVars

(* Time passes, the cron keeps running -- when requests take turns, a user   *)
(* who keeps sending decisions does not keep the cron's request out for ever *)
(* -- every await is answered, and a handler does not die each time it is    *)
(* about to save a skip.  Users need not decide.                             *)
SchedulerFairness ==
  /\ WF_schedulerVars(Tick) /\ SF_schedulerVars(CronStep)
  /\ \A h \in Handlers :
       /\ WF_schedulerVars(Step(h) /\ UNCHANGED scheduleVars)
       /\ SF_schedulerVars(SkipSave(h) /\ UNCHANGED scheduleVars)

SchedulerFairSpec == SchedulerSpec /\ SchedulerFairness

-----------------------------------------------------------------------------
(* A scout window is marked only if the scout got as far as a proposal: a    *)
(* 409, a failure or a late answer is not taken for a success.               *)
MarkedIsScouted == "scout" \in marks => row.phase \notin {"NONE", "SCOUTING"}


(* "executeTime (T-30m) auto-finalizes to SKIP if still undecided": when the *)
(* finalize window is marked and no request is under way, the day is not     *)
(* waiting for a decision.                                                   *)
NotLeftPending ==
  "finalize" \in marks /\ (\A h \in Handlers : Idle(h)) =>
    row.phase # "AWAITING_APPROVAL"
=============================================================================
