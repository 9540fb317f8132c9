------------------------------- MODULE Router -------------------------------
(***************************************************************************)
(* The routing rules of notification_service: which channels an event type *)
(* goes to, in which order, and which payload key holds the recipient.     *)
(***************************************************************************)
EXTENDS Integers, Sequences

Channels == {"email", "webhook"}

routes ==
    [t \in {"user.registered", "order.completed", "payment.failed", "default"} |->
        CASE t = "user.registered" -> <<"email">>
          [] t = "order.completed" -> <<"email", "webhook">>
          [] t = "payment.failed"  -> <<"email">>
          [] t = "default"         -> <<"webhook">>]

Resolve(eventType) ==
    IF eventType \in DOMAIN routes THEN routes[eventType] ELSE routes["default"]

RecipientKey(channel) == IF channel = "email" THEN "email" ELSE "webhook_url"

\* The payload holds a non-empty string at the recipient key of every route.
\* A payload is the set of the keys that do.
HasRecipients(eventType, payload) ==
    \A k \in 1..Len(Resolve(eventType)) :
       RecipientKey(Resolve(eventType)[k]) \in payload
=============================================================================
