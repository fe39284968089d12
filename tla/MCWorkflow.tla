----------------------------- MODULE MCWorkflow -----------------------------
(* A menu of up to three items, one or two requests at a time.               *)
EXTENDS Workflow

CONSTANTS h1, h2
=============================================================================
