------------------------ MODULE MCNotificationOutbox ------------------------
(***************************************************************************)
(* NotificationOutbox is small as it stands: the run chooses its constants. *)
(***************************************************************************)
EXTENDS NotificationOutbox
=============================================================================
