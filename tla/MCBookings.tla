----------------------------- MODULE MCBookings -----------------------------
(* The instances of Bookings are in the .cfg files; none needs a definition. *)
EXTENDS Bookings
=============================================================================
