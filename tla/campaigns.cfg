SPECIFICATION Spec
CONSTANTS
  MaxCommands = 3
  CURRENT = CURRENT
  CURRENT_tmp = CURRENT_tmp
  MaxCrashes = 1
  Scenarios <- Situations
CHECK_DEADLOCK FALSE
INVARIANTS
  TypeOK
  CurrentIsWhole
PROPERTIES
  LockedCampaignLeftAlone
  ImplementsCampaignPointer
  CreatorGivesWayToAnother
