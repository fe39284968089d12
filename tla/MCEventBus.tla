----------------------------- MODULE MCEventBus -----------------------------
(* One message of each kind, read by two replicas.                           *)
EXTENDS EventBus

CONSTANTS e1, e2, e3, c1, c2

OneOfEachKind == [e \in {e1, e2, e3} |->
                    CASE e = e1 -> "subscribed"
                      [] e = e2 -> "foreign"
                      [] e = e3 -> "unreadable"]
=============================================================================
