---------------------------- MODULE MCNotification ----------------------------
(* One message of each kind, of one user.                                     *)
EXTENDS Notification

CONSTANTS e1, e2, e3, c1, d1, d2

OneOfEachKind == [e \in {e1, e2, e3} |->
                    CASE e = e1 -> "subscribed"
                      [] e = e2 -> "foreign"
                      [] e = e3 -> "unreadable"]
=============================================================================
