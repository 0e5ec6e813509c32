\* Start, Stop and new delays in every order; two notices for the batch and one
\* that is urgent; two SMTP commands fail or are never answered.  Stop can
\* deadlock with the loop (it violates StopReturns), so the system may stop.
SPECIFICATION FairSpec
CONSTANTS
  Mails = {"done", "failed", "alert"}
  Notification <- TheNotices
  Preferences <- SomePreferences
  Senders = {"loop", "main", "alert"}
  Settings <- SomeSettings
  MaxFailures = 2
  MaxStops = 1
  MaxDelays = 1
INVARIANTS OnceAndInOrder StopFlushes DeliveredOrGivenUp
PROPERTIES QueuedIsSent StopEnds
CHECK_DEADLOCK FALSE
