-------------------------- MODULE MCNotifications ---------------------------
(* Instances of Notifications for TLC: one event for each kind of handler, *)
(* and crashes bounded by MaxCrashes.                                      *)
EXTENDS Notifications
=============================================================================
