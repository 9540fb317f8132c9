--------------------------- MODULE EventLifecycle ---------------------------
(***************************************************************************)
(* What event_processor promises of an event, without queue, workers or    *)
(* reconciler: it is persisted once, forwarded while it is pending, and    *)
(* settled once, by an answer that was really given.                       *)
(***************************************************************************)
EXTENDS Integers

CONSTANTS EventIDs

VARIABLES
    status,    \* events.status, "absent" where there is no row
    accepts,   \* how many attempts to forward it were accepted
    refused    \* the events an attempt to forward was given up for

vars == <<status, accepts, refused>>

Init ==
    /\ status  = [e \in EventIDs |-> "absent"]
    /\ accepts = [e \in EventIDs |-> 0]
    /\ refused = {}

Persist(e) ==
    /\ status[e] = "absent"
    /\ status' = [status EXCEPT ![e] = "pending"]
    /\ UNCHANGED <<accepts, refused>>

Accept(e) ==
    /\ status[e] = "pending"
    /\ accepts' = [accepts EXCEPT ![e] = @ + 1]
    /\ UNCHANGED <<status, refused>>

GiveUp(e) ==
    /\ status[e] = "pending"
    /\ refused' = refused \cup {e}
    /\ UNCHANGED <<status, accepts>>

Settle(e, outcome) ==
    /\ status[e] = "pending"
    /\ \/ outcome = "processed" /\ accepts[e] > 0
       \/ outcome = "failed" /\ e \in refused
    /\ status' = [status EXCEPT ![e] = outcome]
    /\ UNCHANGED <<accepts, refused>>

Next ==
    \E e \in EventIDs :
       \/ Persist(e) \/ Accept(e) \/ GiveUp(e)
       \/ \E outcome \in {"processed", "failed"} : Settle(e, outcome)

Spec == Init /\ [][Next]_vars
=============================================================================
