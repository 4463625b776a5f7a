SPECIFICATION Spec
CONSTANTS
  ann = ann ben = ben cho = cho dan = dan eve = eve
  r1 = r1 r2 = r2 r3 = r3
  Accounts <- Everyone
  Owner = ann
  Requests <- Three
  MemberCap = 3
  MaxUses = 1
  MaxAccepts = 2
  MaxRemovals = 1
  MaxLost = 1
SYMMETRY Symmetry
CHECK_DEADLOCK FALSE
INVARIANTS OwnerKeepsGroup LimitsHold RemovedStayOut
 
