------------------------------ MODULE MCPayment ------------------------------
(* One order that costs 2.                                                   *)
EXTENDS Payment

CONSTANTS o1, r1, r2, c1, c2

OneCost == [o \in {o1} |-> 2]
=============================================================================
