---------------------------- MODULE MCCampaigns ----------------------------
(* Instances of Campaigns for TLC: a step for those who did not answer, then one
   whose answer ends the sequence. *)
EXTENDS Campaigns
MCManners == {<<"skip", "stop">>}
=============================================================================
