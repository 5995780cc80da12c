----------------------------- MODULE MCCampaign -----------------------------
(* Campaign and its refinement on small instances.                           *)

EXTENDS CampaignQueue
=============================================================================
