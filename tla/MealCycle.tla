------------------------------ MODULE MealCycle ------------------------------
(***************************************************************************)
(* One user's meal of one day, as the orchestrator promises it: a meal is   *)
(* offered, perhaps exchanged for others, and then either approved and      *)
(* ordered, once and as offered, or skipped for good.  Workflow implements  *)
(* this specification as long as the requests about a day take turns, and   *)
(* after that until one saves over a row that it has not seen.              *)
(***************************************************************************)
EXTENDS Integers, Sequences

CONSTANTS Items,    \* menu items
          NoItem    \* none of them

VARIABLES phase,    \* workflow_state.phase, "NONE" before the row exists
          offered,  \* the item the user is asked about
          refused,  \* items the user has swapped away
          ordered   \* items order-execution was given, in order

vars == <<phase, offered, refused, ordered>>

(* TRANSITIONS *)
Transitions ==
  [SCOUTING          |-> {"OPTIMIZING"},
   OPTIMIZING        |-> {"AWAITING_APPROVAL"},
   AWAITING_APPROVAL |-> {"AWAITING_APPROVAL", "APPROVED", "SKIPPED"},
   APPROVED          |-> {"EXECUTING"},
   EXECUTING         |-> {"COMPLETE"},
   COMPLETE          |-> {},
   SKIPPED           |-> {}]

Phases == DOMAIN Transitions \union {"NONE"}

CanTransition(from, to) == to \in Transitions[from]

Init == phase = "NONE" /\ offered = NoItem /\ refused = {} /\ ordered = <<>>

Open == /\ phase = "NONE" /\ phase' = "SCOUTING"
        /\ UNCHANGED <<offered, refused, ordered>>

(* Optimizing is not a phase that anyone else can see.                      *)
Propose(i) ==
  /\ phase = "SCOUTING" /\ CanTransition("SCOUTING", "OPTIMIZING")
  /\ CanTransition("OPTIMIZING", "AWAITING_APPROVAL")
  /\ phase' = "AWAITING_APPROVAL" /\ offered' = i
  /\ UNCHANGED <<refused, ordered>>

Swap(i) ==
  /\ phase = "AWAITING_APPROVAL" /\ CanTransition(phase, "AWAITING_APPROVAL")
  /\ refused' = refused \union {offered}
  /\ i \notin refused' /\ offered' = i
  /\ UNCHANGED <<phase, ordered>>

Approve == /\ phase = "AWAITING_APPROVAL" /\ CanTransition(phase, "APPROVED")
           /\ phase' = "APPROVED" /\ UNCHANGED <<offered, refused, ordered>>

Order == /\ phase = "APPROVED" /\ ordered = <<>>
         /\ ordered' = <<offered>> /\ UNCHANGED <<phase, offered, refused>>

Execute == /\ phase = "APPROVED" /\ CanTransition(phase, "EXECUTING")
           /\ ordered # <<>>
           /\ phase' = "EXECUTING" /\ UNCHANGED <<offered, refused, ordered>>

Skip == /\ phase = "AWAITING_APPROVAL" /\ CanTransition(phase, "SKIPPED")
        /\ phase' = "SKIPPED" /\ UNCHANGED <<offered, refused, ordered>>

Next == \/ Open \/ Approve \/ Order \/ Execute \/ Skip
        \/ \E i \in Items : Propose(i) \/ Swap(i)

Spec == Init /\ [][Next]_vars
=============================================================================
