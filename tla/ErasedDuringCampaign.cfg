SPECIFICATION Spec
CONSTANTS
  Users = {u1, u2}
  Roots = {old, new}
  FirstRoot = old
  Calls = {c1}
  NoCall = NoCall
  Lease = 1
  Rollout = 1
  Patient = TRUE
  MaxCampaigns = 1
  MaxDeployments = 1
  MaxDeletions = 1
  MaxFaults = 1
INVARIANT BlockedItemsAreResolvable
