----------------------- MODULE MCNotificationDelivery -----------------------
(* Two duplicate notifications: the routes of one lead to two channels, those *)
(* of the other to none, so that it suppresses and is suppressed but sends    *)
(* nothing (its deliveries would share no state with the other's).            *)
EXTENDS NotificationDelivery

CONSTANTS n1, n2, c1, c2

MCRoutesOf == (n1 :> {c1, c2}) @@ (n2 :> {})

=============================================================================
