----------------------------- MODULE MCScheduler -----------------------------
(* A menu of one or two items; the cron's request and one more, or the cron's *)
(* alone.  Requests are alike.                                               *)
EXTENDS Scheduler, TLC

CONSTANTS h1, h2

Alike == Permutations({h1, h2})
=============================================================================
