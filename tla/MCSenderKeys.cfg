SPECIFICATION KeySpec
CONSTANTS
  me = me
  ann = ann
  bob = bob
  tablet = tablet
  anns = anns
  bobs = bobs
  s1 = s1
  s2 = s2
  Sends = {s1, s2}
  Devices = {tablet, anns, bobs}
  Accounts = {me, ann, bob}
  Account <- Owners
  Me = me
  Linked = {anns, bobs}
  InGroup = {me, ann}
  Budgets <- Limits
SYMMETRY Symmetry
INVARIANTS
  OnlyMembersRead
  TextsOpen
CHECK_DEADLOCK FALSE
