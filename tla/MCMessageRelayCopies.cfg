SPECIFICATION RelaySpec
CONSTANTS
  ann = ann ben = ben cho = cho a1 = a1 b1 = b1 c1 = c1 m1 = m1
  r1 = r1 r2 = r2 s1 = s1 s2 = s2
  Accounts <- Group
  Owner = ann
  MemberCap = 3
  MaxUses = 1
  MaxAccepts = 1
  MaxRemovals = 1
  MaxLost = 0
  Devices <- Phones
  OwnerOf <- Owners
  Sends <- Attempts
  Lifetime = 3
  Requests <- NoOne
  Blocks <- NoOne
  Bodies <- BatchOnly
  MaxBacklog = 2
  Horizon = 0
  MaxFailures = 0
CHECK_DEADLOCK FALSE
INVARIANT SingleEnvelope
