----------------------------- MODULE MCCampaigns -----------------------------
(* Three situations: three commands that may all make the first campaign; *)
(* three around a campaign, one of which may remove runs/; and the removal *)
(* of runs/ beside one command that makes the first campaign.              *)
EXTENDS Campaigns

Situations ==
    {[campaigns |-> 0, commands |-> 3, cleans |-> 0],
     [campaigns |-> 1, commands |-> 3, cleans |-> 1],
     [campaigns |-> 0, commands |-> 2, cleans |-> 1]}
=============================================================================
