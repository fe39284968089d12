--------------------------- MODULE MCSessionToken ---------------------------
(* Two logins of one user.                                                   *)
EXTENDS SessionToken

CONSTANTS t1, t2, l1, l2, r1
=============================================================================
