SPECIFICATION FairSpec
CONSTANTS
  Users = {u1, u2}
  Roots = {old, new}
  FirstRoot = old
  Calls = {c1}
  NoCall = NoCall
  Lease = 1
  Rollout = 1
  Patient = TRUE
  MaxCampaigns = 1
  MaxDeployments = 1
  MaxDeletions = 0
  MaxFaults = 2
INVARIANT SucceededItemsAreOnTarget
PROPERTY CampaignCompletes
