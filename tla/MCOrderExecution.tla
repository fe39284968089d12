-------------------------- MODULE MCOrderExecution --------------------------
(* Two orders of one user, of 1 and of 2.                                    *)
EXTENDS OrderExecution, TLC

CONSTANTS o1, o2, r1, r2

OneCost == [o \in {o1} |-> 2]
TwoCosts == [o \in {o1, o2} |-> IF o = o1 THEN 1 ELSE 2]

(* When all orders have raced, the properties speak of none.                *)
SomeUnraced == raced # Orders

AnyRequest == Permutations(Requests)
=============================================================================
