------------------------ MODULE MCNotificationModule ------------------------
(* Two concurrent sends, one user id that is empty and one that is not.    *)
EXTENDS NotificationModule

MCUsers == {<<>>, <<"user1">>}
=============================================================================
