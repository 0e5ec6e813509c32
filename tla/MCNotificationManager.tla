----------------------- MODULE MCNotificationManager -----------------------
(* The notification manager on small instances. *)
EXTENDS NotificationManager

\* Every command is given.  The connection test of the start may fail, as it does
\* without settings.
SomeSettings ==
  { [configured |-> TRUE, security |-> "starttls", user |-> TRUE, admin |-> TRUE] }

\* Two reports of backups wait for the batch, and the emergency does not.
TheNotices ==
  [n \in Mails |-> CASE n = "done" -> NotifyBackupStatus("success")
                     [] n = "failed" -> NotifyBackupStatus("failed")
                     [] n = "bug" -> NotifyNormally("bug_report")
                     [] OTHER -> NotifyEmergency]

\* Everything is enabled, or only the emergencies.
SomePreferences == {Types, Types \cap {"emergency"}}
============================================================================
