------------------------- MODULE MCNotificationStream -------------------------
(* The constants of NotificationStream are small numbers, set in the .cfg.  *)
EXTENDS NotificationStream
=============================================================================
