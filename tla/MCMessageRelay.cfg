SPECIFICATION MCSpec
CONSTANTS
  ann = ann ben = ben cho = cho a1 = a1 b1 = b1 c1 = c1 m1 = m1
  r1 = r1 r2 = r2 s1 = s1 s2 = s2
  Accounts <- Group
  Owner = ann
  MemberCap = 3
  MaxUses = 1
  MaxAccepts = 1
  MaxRemovals = 1
  MaxLost = 0
  Devices <- Phones
  OwnerOf <- Owners
  Sends <- Attempts
  Lifetime = 3
  Requests <- Two
  Blocks <- BenBlocksCho
  Bodies <- AnyBody
  MaxBacklog = 1
  Horizon = 4
  MaxFailures = 1
SYMMETRY Symmetry
CHECK_DEADLOCK FALSE
INVARIANTS AnswersTrue RemovedGetNothing
 
