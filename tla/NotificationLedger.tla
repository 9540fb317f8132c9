------------------------- MODULE NotificationLedger -------------------------
(***************************************************************************)
(* What notification_service promises of an event's notifications, without *)
(* requests, transactions or locks: the records of a route list appear     *)
(* together, each is dispatched at most once and only after it exists, and *)
(* what is recorded of a dispatch is never changed.                        *)
(***************************************************************************)
CONSTANTS
    EventIDs,
    Channels,
    ChannelsOf   \* per event: the channels its type is routed to

VARIABLES
    record,      \* the committed status of a notification, "none" without a row
    dispatched   \* has somebody begun to dispatch it?

vars == <<record, dispatched>>

Keys == EventIDs \X Channels

Init ==
    /\ record     = [n \in Keys |-> "none"]
    /\ dispatched = [n \in Keys |-> FALSE]

\* The records of all the channels of an event are inserted together.
Record(e) ==
    /\ \A c \in ChannelsOf[e] : record[<<e, c>>] = "none"
    /\ record' = [n \in Keys |->
                     IF n \in {e} \X ChannelsOf[e] THEN "pending" ELSE record[n]]
    /\ UNCHANGED dispatched

Dispatch(n) ==
    /\ record[n] = "pending"
    /\ ~dispatched[n]
    /\ dispatched' = [dispatched EXCEPT ![n] = TRUE]
    /\ UNCHANGED record

Settle(n, outcome) ==
    /\ record[n] = "pending"
    /\ dispatched[n]
    /\ record' = [record EXCEPT ![n] = outcome]
    /\ UNCHANGED dispatched

Next ==
    \/ \E e \in EventIDs : Record(e)
    \/ \E n \in Keys :
          \/ Dispatch(n)
          \/ \E outcome \in {"sent", "failed"} : Settle(n, outcome)

Spec == Init /\ [][Next]_vars
=============================================================================
