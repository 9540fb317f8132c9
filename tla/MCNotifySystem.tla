--------------------------- MODULE MCNotifySystem ---------------------------
(***************************************************************************)
(* NotifySystem on small instances: an order goes to two channels, a       *)
(* failed payment to one, and a registration lacks its recipient.          *)
(***************************************************************************)
EXTENDS NotifySystem

CONSTANTS order, payment, user, c1, a

Order          == {order}
OrderOrNone    == {order, None}
PaymentAndUser == {payment, user}
OneClient      == {c1}
OneInstance    == {a}

MCTypeOf == [e \in EventIDs |->
                CASE e = order   -> "order.completed"
                  [] e = payment -> "payment.failed"
                  [] OTHER       -> "user.registered"]
MCPayloadOf == [e \in EventIDs |->
                CASE e = order   -> {"email", "webhook_url"}
                  [] e = payment -> {"email"}
                  [] OTHER       -> {"webhook_url"}]
=============================================================================
