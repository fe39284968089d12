---------------------------- MODULE MCFoodGateway ----------------------------
(* Two calls at a time, two cart contents.                                 *)
EXTENDS FoodGateway

CONSTANTS c1, c2, a, empty
=============================================================================
