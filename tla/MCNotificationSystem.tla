----------------------- MODULE MCNotificationSystem -----------------------
(* NotificationSystem for TLC: the recipient plays no part in it.          *)
EXTENDS NotificationSystem

MCUsers == {<<"u">>}
=============================================================================
