SPECIFICATION Spec
CONSTANTS
  Users = {u1, u2}
  Roots = {old, new}
  FirstRoot = old
  Calls = {c1}
  NoCall = NoCall
  Lease = 1
  Rollout = 1
  Patient = TRUE
  MaxCampaigns = 2
  MaxDeployments = 2
  MaxDeletions = 0
  MaxFaults = 1
INVARIANT RollbackIsAdmitted
