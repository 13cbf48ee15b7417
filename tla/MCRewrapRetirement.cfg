SPECIFICATION Spec
CONSTANTS
  Users = {u1, u2}
  Roots = {old, new}
  FirstRoot = old
  Calls = {c1, c2}
  NoCall = NoCall
  Lease = 1
  Rollout = 1
  Patient = FALSE
  MaxCampaigns = 2
  MaxDeployments = 1
  MaxDeletions = 1
  MaxFaults = 1
INVARIANT WrappersOpen
INVARIANT NoRotationDuringCampaign
SYMMETRY Symmetric
