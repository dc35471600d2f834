--------------------------- MODULE MCReplyDrafts ---------------------------
(* Instances of ReplyDrafts for TLC. *)
EXTENDS ReplyDrafts
=============================================================================
