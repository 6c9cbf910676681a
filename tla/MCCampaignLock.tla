-------------------------- MODULE MCCampaignLock --------------------------
(* Small instances of CampaignLock: three process ids on two hosts. *)
EXTENDS CampaignLock

CONSTANTS p1, p2, p3

Ids == {p1, p2, p3}
SharedFilesystem == [p \in Ids |-> IF p = p3 THEN "east" ELSE "west"]
OneHost == [p \in Ids |-> "west"]
=============================================================================
