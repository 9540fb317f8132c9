------------------------ MODULE MCNotificationService ------------------------
(***************************************************************************)
(* NotificationService on small instances: an order goes to two channels;  *)
(* a registration to one, and its payload lacks the recipient.             *)
(***************************************************************************)
EXTENDS NotificationService, TLC

CONSTANTS order, user, r1, r2, r3

OneEvent      == {order}
TwoEvents     == {order, user}
TwoRequests   == {r1, r2}
ThreeRequests == {r1, r2, r3}

MCTypeOf == [e \in EventIDs |->
                IF e = order THEN "order.completed" ELSE "user.registered"]
MCPayloadOf == [e \in EventIDs |->
                IF e = order THEN {"email", "webhook_url"} ELSE {"webhook_url"}]

\* Requests are interchangeable.
Symmetric == Permutations(Requests)
=============================================================================
