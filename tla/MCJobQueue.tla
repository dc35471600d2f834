---------------------------- MODULE MCJobQueue ----------------------------
(* The instances of JobQueue are in the .cfg files; none needs a definition. *)
EXTENDS JobQueue
=============================================================================
