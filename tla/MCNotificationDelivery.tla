----------------------- MODULE MCNotificationDelivery -----------------------
(* An instance of NotificationDelivery for TLC: a notification of a customer *)
(* and one of a driver.                                                      *)
EXTENDS NotificationDelivery, TLC

CONSTANTS job1, job2, customer, driver

MCUserOf == job1 :> customer @@ job2 :> driver

=============================================================================
