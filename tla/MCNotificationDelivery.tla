------------------------ MODULE MCNotificationDelivery ------------------------
(* Instances of NotificationDelivery for TLC.                              *)
EXTENDS NotificationDelivery, TLC

CONSTANTS u1, u2, n1, n2

OneEach  == n1 :> u1
==============================================================================
