------------------------------ MODULE MCSweeps ------------------------------
(* Instances of Sweeps for TLC: a job of each combination of fields. *)
EXTENDS Sweeps
MCKinds == {Reminders, Carts, RepeatPurchases, Unacknowledged, Uncategorized, TeamRequests}
=============================================================================
