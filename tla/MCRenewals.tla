----------------------------- MODULE MCRenewals -----------------------------
(* Instances of Renewals for TLC. *)
EXTENDS Renewals
=============================================================================
