----------------------------- MODULE MCCampaign -----------------------------
(* The instance of Campaign that campaign.cfg describes; fairness leaves no symmetry. *)
EXTENDS Campaign
=============================================================================
