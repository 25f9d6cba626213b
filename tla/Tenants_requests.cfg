CONSTANTS
  Requests = {r1, r2, r3}
  t0 = t0
  u0 = u0
  k0 = k0
  i0 = i0
  FirstTenant = t0
  FirstUser = u0
  FirstToken = k0
  FirstInvite = i0
  FirstEmail = "known"
  None = None
  MaxFaults = 1
  PerMinute = 25
  Burst = 2
  Calls <- AllCalls
  Stem <- InboxStem
SYMMETRY AllRequests
SPECIFICATION Spec
INVARIANTS
  SignupsAreWhole
  OneAccountPerAddress
  RenewedOnce
  HardDeleteLeavesNoSchema
  SuspensionHolds
  RebuildIsComplete
  RunRowsDescribeTheirFiles
CHECK_DEADLOCK FALSE
